---- MODULE Spec2Model ----
(***************************************************************************)
(* A model of the SDAL-Builder encoding engine (src/src/sdal_builder).     *)
(*                                                                         *)
(* Byte strings whose content no checked property reads are modelled by    *)
(* their length; a file is the sequence of byte runs written to it, each   *)
(* run being a parcel header (with its decoded fields), a payload, a run   *)
(* of zero bytes or the region header.  Lengths are computed with the     *)
(* arithmetic of the code that produces the bytes.                         *)
(***************************************************************************)
EXTENDS Integers, Sequences, FiniteSets, TLC

VARIABLES
    \* build(): the per-region map files and the topology vector
    mode,               \* format_mode, "OEM" or "SDAL"
    regions,            \* the region slugs given to build()
    pc,                 \* position of build()
    region_idx,         \* index of the region being processed (1-based)
    parcel_builders,    \* the builder list handed to the region-file assembler
    builder_idx,        \* index of the next builder in the assembler's loop
    offset_bytes,       \* the assembler's running byte offset
    files,              \* file name -> byte runs written (<<>> when absent)
    topology_entries,   \* the shared topology vector
    \* direct invocations of the parcel encoders
    enc_call,           \* the arguments of the invocation
    enc_result,         \* what the invocation returned
    \* encode_vlv_type1 applied to a sequence of values
    vlv_in,             \* values to encode
    vlv_pos,            \* number of values encoded so far
    vlv_out,            \* bytes written so far
    vlv_status,         \* "ok", or the exception raised
    \* compress_szip
    szip_in,            \* input bytes
    szip_pc,            \* position of compress_szip
    szip_tokens,        \* LZ77 tokens
    szip_out,           \* result of compress_szip
    lz_pos,             \* current_pos of lz77_tokenize
    \* build_routing_graph_from_roads_df
    graph_rows,         \* the line-strings of roads_df, as sequences of points
    graph_row,          \* number of rows processed
    nodes_map,          \* (lon, lat) -> node id
    node_records,       \* node id -> NodeRecord
    segments,           \* the SegmentRecords, in creation order
    next_node_id,       \* next node id to hand out
    next_seg_id,        \* next segment id to hand out
    graph_out,          \* the returned (node_list, segments)
    graph_pc,           \* position of build_routing_graph_from_roads_df
    \* build(), steps 8 to 10
    cartotop,           \* CARTOTOP.SDL: number of writes and what was written
    control_files,      \* REGION/REGIONS/INIT/MTOC files written
    iso_paths           \* what is at work/sdal_tmp.iso and at out_iso

buildVars == <<mode, regions, pc, region_idx, parcel_builders, builder_idx,
               offset_bytes, files, topology_entries>>
encVars   == <<enc_call, enc_result>>
vlvVars   == <<vlv_in, vlv_pos, vlv_out, vlv_status>>
szipVars  == <<szip_in, szip_pc, szip_tokens, szip_out, lz_pos>>
graphVars == <<graph_rows, graph_row, nodes_map, node_records, segments,
               next_node_id, next_seg_id, graph_out, graph_pc>>
outVars   == <<cartotop, control_files, iso_paths>>
extVars   == <<graphVars, outVars>>
vars      == <<buildVars, encVars, vlvVars, szipVars, extVars>>

----------------------------------------------------------------------------
(* Arithmetic helpers *)

Min(a, b) == IF a < b THEN a ELSE b
Max(a, b) == IF a > b THEN a ELSE b

MaxOf(S) == CHOOSE x \in S : \A y \in S : y <= x
MinOf(S) == CHOOSE x \in S : \A y \in S : x <= y

RECURSIVE SumSeq(_)
SumSeq(s) == IF s = <<>> THEN 0 ELSE Head(s) + SumSeq(Tail(s))

RECURSIVE Flatten(_)
Flatten(ss) == IF ss = <<>> THEN <<>> ELSE Head(ss) \o Flatten(Tail(ss))

IsPrefix(s, t) == Len(s) <= Len(t) /\ SubSeq(t, 1, Len(s)) = s

----------------------------------------------------------------------------
(* Program constants *)

PCL_HEADER_SIZE == 20
NO_COMPRESSION == 0
SZIP_COMPRESSION == 4
unit_shift == 12
unit_size == 4096
RGN_HDR_SIZE == 512
MAX_CARTO_RECORDS == 65535
EOF == "_EOF"

\* The keys of constants.HUFFMAN_TABLE: the 256 byte values (ints), and no
\* entry for the EOF marker (a str).  Keys are tagged with their type.
HUFFMAN_TABLE_KEYS == {<<"int", b>> : b \in 0 .. 255}

\* PIDProfile values of the two format modes.
PIDS == [OEM  |-> [CARTO |-> 2000, ROUTING |-> 4000, BTREE |-> 3000,
                   CARTOTOP |-> 2000, POI_NAME |-> 1000, KDTREE |-> 8000,
                   POI_GEOM |-> 1001, POI_INDEX |-> 1002,
                   GLB_MEDIA_HEADER |-> 19, LOCALE |-> 100, SYMBOL |-> 101],
         SDAL |-> [CARTO |-> 110,  ROUTING |-> 130,  BTREE |-> 122,
                   CARTOTOP |-> 120, POI_NAME |-> 160, KDTREE |-> 255,
                   POI_GEOM |-> 161, POI_INDEX |-> 162,
                   GLB_MEDIA_HEADER |-> 19, LOCALE |-> 100, SYMBOL |-> 101]]

----------------------------------------------------------------------------
(* encoder.py: the parcel container *)

\* A failed call: the exception raised, and no bytes.
Raise(exc) == [status |-> exc, header |-> <<>>, body_len |-> 0]

\* ParcelID_t as its top byte (flags and size index) and its low 24 bits.
make_parcelid(offset_units, size_index, external_to_region, redundancy) ==
    IF ~(0 <= offset_units /\ offset_units < 16777216)
    THEN [status |-> "ValueError", top |-> 0, units |-> 0]
    ELSE IF ~(0 <= size_index /\ size_index < 64)
    THEN [status |-> "ValueError", top |-> 0, units |-> 0]
    ELSE [status |-> "ok",
          top    |-> (IF external_to_region THEN 128 ELSE 0)
                     + (IF redundancy THEN 64 ELSE 0)
                     + (size_index % 64),
          units  |-> offset_units % 16777216]

\* The 20-byte PclHdr_t, field by field.
build_pcl_header(parcelid, payload_len, compressed_payload_len, region, parcel_type, parcel_desc, compress_type, data_offset) ==
    LET size_bits == compressed_payload_len * 8
    IN  [parcelid            |-> [top |-> parcelid.top, units |-> parcelid.units],
         usParcelDesc        |-> parcel_desc % 65536,
         ucParcelType        |-> parcel_type % 256,
         region_id           |-> region % 256,
         bEndianSwap         |-> 0,
         ucCmpDataSizeHi     |-> (size_bits \div 65536) % 256,
         usCmpDataSizeLo     |-> size_bits % 65536,
         usCompressType      |-> compress_type % 65536,
         usCmpData           |-> data_offset % 65536,
         usCmpDataUncompSize |-> payload_len % 65536,
         usExtensionOffset   |-> 0]

\* huffman_compress: every byte has a code; the EOF marker is looked up last
\* and the table has no entry for it.
huffman_compress(payload_len) ==
    IF <<"str", EOF>> \notin HUFFMAN_TABLE_KEYS
    THEN [status |-> "ValueError", len |-> 0]
    ELSE [status |-> "ok", len |-> payload_len + 1]

encode_bytes(pid, payload_len, region, parcel_type, parcel_desc, compress_type, offset_units, size_index, external_to_region, redundancy) ==
    LET desc == IF parcel_desc = 0 THEN pid % 65536 ELSE parcel_desc
        comp == IF compress_type = SZIP_COMPRESSION
                THEN huffman_compress(payload_len)
                ELSE [status |-> "ok", len |-> payload_len]
        id   == make_parcelid(offset_units, size_index, external_to_region,
                              redundancy)
    IN  IF comp.status # "ok" THEN Raise(comp.status)
        ELSE IF id.status # "ok" THEN Raise(id.status)
        ELSE [status   |-> "ok",
              header   |-> build_pcl_header(id, payload_len, comp.len, region,
                                            parcel_type, desc, compress_type,
                                            PCL_HEADER_SIZE),
              body_len |-> comp.len]

\* len() of the bytes an encoder call returned.
ParcelLen(p) == PCL_HEADER_SIZE + p.body_len

----------------------------------------------------------------------------
(* routing_format.py: Type-1 variable-length values *)

\* encode_vlv_type1 with the two-byte form kept up to 0x7FFF, where the
\* tag bits of the leading byte are overwritten by the value.
encode_vlv_type1_wide2(value) ==
    IF value < 0 THEN [status |-> "struct.error", bytes |-> <<>>]
    ELSE IF value < 128 THEN [status |-> "ok", bytes |-> <<value>>]
    ELSE IF value < 32768
    THEN [status |-> "ok",
          bytes  |-> <<(value + 32768) \div 256, value % 256>>]
    ELSE IF value < 2097152
    THEN [status |-> "ok",
          bytes  |-> <<(value + 12582912) \div 65536,
                       (value \div 256) % 256, value % 256>>]
    ELSE [status |-> "ok",
          bytes  |-> <<224 + ((value \div 16777216) % 32),
                       (value \div 65536) % 256,
                       (value \div 256) % 256, value % 256>>]

\* The bytes encode_vlv_type1 returns, or the exception struct.pack raises.
encode_vlv_type1(value) ==
    IF value < 0 THEN [status |-> "struct.error", bytes |-> <<>>]
    ELSE IF value < 128 THEN [status |-> "ok", bytes |-> <<value>>]
    ELSE IF value < 16384
    THEN [status |-> "ok",
          bytes  |-> <<(value + 32768) \div 256, value % 256>>]
    ELSE IF value < 2097152
    THEN [status |-> "ok",
          bytes  |-> <<(value + 12582912) \div 65536,
                       (value \div 256) % 256, value % 256>>]
    ELSE [status |-> "ok",
          bytes  |-> <<224 + ((value \div 16777216) % 32),
                       (value \div 65536) % 256,
                       (value \div 256) % 256, value % 256>>]

\* Total length of encode_vlv_type1(v) for v in lo .. hi-1 (0 <= lo <= hi):
\* one byte each, one more from 0x80, from 0x4000 and from 0x200000.
Type1LenBelow(x) ==
    x + Max(0, x - 128) + Max(0, x - 16384) + Max(0, x - 2097152)
SumType1Len(lo, hi) == Type1LenBelow(hi) - Type1LenBelow(lo)

----------------------------------------------------------------------------
(* encoder.py / routing_format.py: payload encoders, by payload length *)

\* A road is [id, n]: its way id and the number of its vertices.
RecordSize(r) == 6 + r.n * 8

encode_cartography(pid, records, offset_units, rect_ntu, compress_type) ==
    IF Len(records) > 65535 THEN Raise("ValueError")
    ELSE IF \E i \in 1 .. Len(records) : records[i].n > 65535
    THEN Raise("struct.error")
    ELSE encode_bytes(pid,
                      16 + 2 + SumSeq([i \in 1 .. Len(records) |->
                                          4 + 2 + records[i].n * 8]),
                      1, 1, 0, compress_type, offset_units, 0, FALSE, FALSE)

encode_btree(pid, offsets, offset_units, compress_type) ==
    encode_bytes(pid, 4 + 8 * Len(offsets),
                 1, 0, 0, compress_type, offset_units, 0, FALSE, FALSE)

\* The routing graph of a road set all of whose vertices are distinct points:
\* node ids run along the roads, each road of n >= 2 vertices is a chain of
\* n - 1 segments between consecutive ids.
RECURSIVE GraphChains(_, _)
GraphChains(roads, first_id) ==
    IF roads = <<>> THEN <<>>
    ELSE IF Head(roads).n < 2 THEN GraphChains(Tail(roads), first_id)
    ELSE <<[base |-> first_id, n |-> Head(roads).n]>>
         \o GraphChains(Tail(roads), first_id + Head(roads).n)

build_routing_graph_from_roads_df(roads) ==
    LET chains == GraphChains(roads, 0)
    IN  [node_count |-> SumSeq([i \in 1 .. Len(chains) |-> chains[i].n]),
         seg_count  |-> SumSeq([i \in 1 .. Len(chains) |-> chains[i].n - 1]),
         chains     |-> chains]

\* BlkDesc (6 bytes), a Type-1 id per node, then the bit stream of two 19-bit
\* values per node.
encode_nodes_block(graph) ==
    IF graph.node_count = 0 THEN 0
    ELSE 6 + SumType1Len(0, graph.node_count)
           + (graph.node_count * 38 + 7) \div 8

\* BlkDesc (6 bytes), then per segment Type-1 seg_id, from, to and an f32.
encode_segments_block(graph) ==
    IF graph.seg_count = 0 THEN 0
    ELSE 6 + SumType1Len(0, graph.seg_count)
           + SumSeq([i \in 1 .. Len(graph.chains) |->
                 SumType1Len(graph.chains[i].base,
                             graph.chains[i].base + graph.chains[i].n - 1)
               + SumType1Len(graph.chains[i].base + 1,
                             graph.chains[i].base + graph.chains[i].n)])
           + 4 * graph.seg_count

\* struct sizes: _SPTL_HDR_STRUCT (">12i IHBB 16H BBHII 4I"),
\* _ROUTING_HDR0_STRUCT (">HIBBIHHHBBBBHHHI") and the block offset array.
SPTL_HDR_SIZE == 116
ROUTING_HDR0_SIZE == 32
BLOCK_OFFSET_ARRAY_SIZE == 16

\* encode_routing_parcel: raw_payload as its pieces in order; a block that
\* encodes to b"" contributes no piece.
RoutingPiece(name, len, blk_id, offsets) ==
    [name |-> name, len |-> len, blk_id |-> blk_id, offsets |-> offsets]

RoutingPayloadLayout(graph) ==
    LET nodes_block    == encode_nodes_block(graph)
        segments_block == encode_segments_block(graph)
        node_data_offset_from_boa == BLOCK_OFFSET_ARRAY_SIZE
        seg_data_offset_from_boa  == node_data_offset_from_boa + nodes_block
    IN  <<RoutingPiece("SptlPclHdr", SPTL_HDR_SIZE, -1, <<>>),
          RoutingPiece("RoutingParcelHeader0", ROUTING_HDR0_SIZE, -1, <<>>),
          RoutingPiece("BlockOffsetArray", BLOCK_OFFSET_ARRAY_SIZE, -1,
                       <<node_data_offset_from_boa, seg_data_offset_from_boa,
                         0, 0>>)>>
        \o (IF nodes_block = 0 THEN <<>>
            ELSE <<RoutingPiece("BlkDesc", 6, 256, <<>>),
                   RoutingPiece("NodeData", nodes_block - 6, -1, <<>>)>>)
        \o (IF segments_block = 0 THEN <<>>
            ELSE <<RoutingPiece("BlkDesc", 6, 512, <<>>),
                   RoutingPiece("SegmentData", segments_block - 6, -1, <<>>)>>)

encode_routing_parcel(pid, graph, region, parcel_type, parcel_desc, offset_units, rect_ntu, compress_type, size_index) ==
    encode_bytes(pid,
                 SPTL_HDR_SIZE + ROUTING_HDR0_SIZE + BLOCK_OFFSET_ARRAY_SIZE
                     + encode_nodes_block(graph) + encode_segments_block(graph),
                 region, parcel_type, parcel_desc, compress_type,
                 offset_units, size_index, FALSE, FALSE)

----------------------------------------------------------------------------
(* Inputs of build(): the region slugs and the road data of their extracts *)

MaxRegions == 2

Slugs == {"europe/georgia", "north-america/us/georgia",
          "europe/cyprus", "europe/malta"}

\* load_road_network: the roads of each extract, as [id, n] (n vertices).
RoadsOf ==
    [s \in Slugs |->
       CASE s = "europe/georgia" ->
              <<[id |-> 1, n |-> 2], [id |-> 2, n |-> 2], [id |-> 3, n |-> 501]>>
         [] s = "north-america/us/georgia" ->
              <<[id |-> 7, n |-> 9000], [id |-> 8, n |-> 1]>>
         [] s = "europe/cyprus" ->
              <<[id |-> 42, n |-> 65535], [id |-> 43, n |-> 65535],
                [id |-> 44, n |-> 65535], [id |-> 45, n |-> 65535]>>
         [] s = "europe/malta" ->
              <<[id |-> 5, n |-> 0], [id |-> 6, n |-> 3], [id |-> 9, n |-> 2]>>]

\* region_rect_ntu = (min_lat, max_lat, min_lon, max_lon) of the road bounds.
RectOf ==
    [s \in Slugs |->
       CASE s = "europe/georgia"           -> <<4100000, 4360000, 4000000, 4670000>>
         [] s = "north-america/us/georgia" -> <<3035000, 3500000, -8560000, -8080000>>
         [] s = "europe/cyprus"            -> <<3450000, 3570000, 3220000, 3460000>>
         [] s = "europe/malta"             -> <<3580000, 3610000, 1418000, 1458000>>]

\* stem = pathlib.Path(region).name.upper().replace("-", "_"); map file
\* name = stem + "1.SDL".
MapFileName ==
    [s \in Slugs |->
       CASE s = "europe/georgia"           -> "GEORGIA1.SDL"
         [] s = "north-america/us/georgia" -> "GEORGIA1.SDL"
         [] s = "europe/cyprus"            -> "CYPRUS1.SDL"
         [] s = "europe/malta"             -> "MALTA1.SDL"]

FileNames == {MapFileName[s] : s \in Slugs}

RegionLists ==
    UNION {[1 .. k -> Slugs] : k \in 1 .. MaxRegions}

\* db_for_region: a dict keyed by slug, filled in list order.
DbFor(rs, slug) ==
    CHOOSE i \in 1 .. Len(rs) :
        rs[i] = slug /\ \A j \in 1 .. Len(rs) : rs[j] = slug => j <= i

----------------------------------------------------------------------------
(* main.py build(): cartography chunks and the builder list of a region *)

\* `if not coords: continue`
CartoRecords(slug) == SelectSeq(RoadsOf[slug], LAMBDA r : r.n > 0)

RECURSIVE ChunkRecords(_)
ChunkRecords(records) ==
    IF records = <<>> THEN <<>>
    ELSE LET k == Min(Len(records), MAX_CARTO_RECORDS)
         IN  <<SubSeq(records, 1, k)>>
             \o ChunkRecords(SubSeq(records, k + 1, Len(records)))

\* chunk_offsets with off starting at 16, the size of the bounds alone.
ChunkOffsetsFromBounds(chunk) ==
    [i \in 1 .. Len(chunk) |->
        <<chunk[i].id,
          16 + SumSeq([j \in 1 .. (i - 1) |-> RecordSize(chunk[j])])>>]

\* chunk_offsets: (way_id, off), off starting at 18.
ChunkOffsets(chunk) ==
    [i \in 1 .. Len(chunk) |->
        <<chunk[i].id,
          18 + SumSeq([j \in 1 .. (i - 1) |-> RecordSize(chunk[j])])>>]

NoGraph == [node_count |-> 0, seg_count |-> 0, chains |-> <<>>]

ParcelBuilder(pid, layer_type, kind, records, offsets, graph, rect) ==
    [pid |-> pid, layer_type |-> layer_type, kind |-> kind,
     records |-> records, offsets |-> offsets, graph |-> graph,
     rect |-> rect, scale_min |-> 0, scale_max |-> 65535,
     compress |-> NO_COMPRESSION]

BuildParcelBuilders(slug, m) ==
    LET chunks == ChunkRecords(CartoRecords(slug))
        rect   == RectOf[slug]
    IN  Flatten([i \in 1 .. Len(chunks) |->
                    <<ParcelBuilder(PIDS[m].CARTO, 0, "carto", chunks[i],
                                    <<>>, NoGraph, rect),
                      ParcelBuilder(PIDS[m].BTREE, 2, "btree", <<>>,
                                    ChunkOffsets(chunks[i]), NoGraph, rect)>>])
        \o <<ParcelBuilder(PIDS[m].ROUTING, 1, "routing", <<>>, <<>>,
                           build_routing_graph_from_roads_df(RoadsOf[slug]),
                           rect)>>

\* pb.make(offset_units): the closures make_carto_parcel, make_btree_parcel
\* and make_routing_parcel.
Make(pb, offset_units, m) ==
    CASE pb.kind = "carto" ->
           encode_cartography(PIDS[m].CARTO, pb.records, offset_units, pb.rect,
                              NO_COMPRESSION)
      [] pb.kind = "btree" ->
           encode_btree(PIDS[m].BTREE, pb.offsets, offset_units, NO_COMPRESSION)
      [] pb.kind = "routing" ->
           encode_routing_parcel(PIDS[m].ROUTING, pb.graph, 1, 0, 2,
                                 offset_units, pb.rect, NO_COMPRESSION, 0)

----------------------------------------------------------------------------
(* main.py: the region-file assembler *)

NoHdr == [none |-> TRUE]
Run(kind, len, hdr) == [kind |-> kind, len |-> len, hdr |-> hdr]

\* pad = (-len) & (unit_size - 1)
PadLen(len) == (unit_size - (len % unit_size)) % unit_size

\* What `with open(out_path, "wb")` leaves in the file before the first
\* parcel: nothing (OEM), or RgnHdr_t padded to the unit (SDAL).
OpenRegionFile(m) ==
    IF m = "SDAL"
    THEN <<Run("rgnhdr", RGN_HDR_SIZE, NoHdr)>>
         \o (IF PadLen(RGN_HDR_SIZE) > 0
             THEN <<Run("zeros", PadLen(RGN_HDR_SIZE), NoHdr)>> ELSE <<>>)
    ELSE <<>>

\* f.write(parcel_bytes); if pad: f.write(zeros)
WriteParcelRuns(f, parcel) ==
    f \o <<Run("hdr", PCL_HEADER_SIZE, parcel.header),
           Run("payload", parcel.body_len, NoHdr)>>
      \o (IF PadLen(ParcelLen(parcel)) > 0
          THEN <<Run("zeros", PadLen(ParcelLen(parcel)), NoHdr)>> ELSE <<>>)

\* The offset update without the padding written after the parcel.
NextOffsetNoPad(off, len, pad) == off + len

\* offset_bytes += len(parcel_bytes) + pad
NextOffset(off, len, pad) == off + len + pad

TopologyEntry(db_id, sdl_name, pb, offset_units) ==
    [db_id |-> db_id, sdl_name |-> sdl_name, parcel_id |-> pb.pid,
     offset_units |-> offset_units,
     rect_min_lat_ntu |-> pb.rect[1], rect_max_lat_ntu |-> pb.rect[2],
     rect_min_lon_ntu |-> pb.rect[3], rect_max_lon_ntu |-> pb.rect[4],
     scale_min |-> pb.scale_min, scale_max |-> pb.scale_max,
     layer_type |-> pb.layer_type]

\* The entry put in front of the vector instead of at its end.
PrependTopology(entries, e) == <<e>> \o entries

\* topology_entries.append(entry)
AppendTopology(entries, e) == Append(entries, e)

FileSize(f) == SumSeq([i \in 1 .. Len(f) |-> f[i].len])
RunStart(f, i) == SumSeq([j \in 1 .. (i - 1) |-> f[j].len])
HdrRuns(f) == {i \in 1 .. Len(f) : f[i].kind = "hdr"}

CurSlug == regions[region_idx]
CurFile == MapFileName[CurSlug]

IdleEnc  == enc_call = [fn |-> "none"] /\ enc_result = [status |-> "none"]
IdleVlv  == vlv_in = <<>> /\ vlv_pos = 0 /\ vlv_out = <<>> /\ vlv_status = "ok"
IdleSzip == szip_in = <<>> /\ szip_pc = "idle" /\ szip_tokens = <<>>
            /\ szip_out = [status |-> "none"] /\ lz_pos = 0
IdleGraph == graph_rows = <<>> /\ graph_row = 0 /\ nodes_map = {}
             /\ node_records = [i \in {} |-> 0] /\ segments = <<>>
             /\ next_node_id = 0 /\ next_seg_id = 0
             /\ graph_out = [status |-> "none"] /\ graph_pc = "idle"
IsoPaths == {"sdal_tmp.iso", "out_iso"}
IdleOut  == cartotop = [writes |-> 0] /\ control_files = {}
            /\ iso_paths = [p \in IsoPaths |-> "absent"]
IdleExt  == IdleGraph /\ IdleOut
IdleBuild ==
    /\ mode = "OEM" /\ regions = <<>> /\ pc = "idle" /\ region_idx = 1
    /\ parcel_builders = <<>> /\ builder_idx = 1 /\ offset_bytes = 0
    /\ files = [n \in FileNames |-> <<>>] /\ topology_entries = <<>>

Init ==
    /\ mode \in {"OEM", "SDAL"}
    /\ regions \in RegionLists
    /\ pc = "regions"
    /\ region_idx = 1
    /\ parcel_builders = <<>>
    /\ builder_idx = 1
    /\ offset_bytes = 0
    /\ files = [n \in FileNames |-> <<>>]
    /\ topology_entries = <<>>
    /\ cartotop = [writes |-> 0]
    /\ control_files = {}
    /\ iso_paths \in [IsoPaths -> {"absent", "old"}]
    /\ IdleEnc /\ IdleVlv /\ IdleSzip /\ IdleGraph

\* build(), step 7, up to the call of build_region_sdl_file, and the
\* assembler up to its loop.
BeginRegion ==
    /\ pc = "regions"
    /\ region_idx <= Len(regions)
    /\ parcel_builders' = BuildParcelBuilders(CurSlug, mode)
    /\ builder_idx' = 1
    /\ files' = [files EXCEPT ![CurFile] = OpenRegionFile(mode)]
    /\ offset_bytes' = FileSize(OpenRegionFile(mode))
    /\ pc' = "parcels"
    /\ UNCHANGED <<mode, regions, region_idx, topology_entries>>
    /\ UNCHANGED <<encVars, vlvVars, szipVars, extVars>>

\* One iteration of `for pb in parcel_builders`.
WriteParcel ==
    /\ pc = "parcels"
    /\ builder_idx <= Len(parcel_builders)
    /\ LET pb           == parcel_builders[builder_idx]
           offset_units == offset_bytes \div (2 ^ unit_shift)
           parcel       == Make(pb, offset_units, mode)
       IN  IF parcel.status # "ok"
           THEN /\ pc' = "failed"
                /\ UNCHANGED <<builder_idx, files, offset_bytes,
                               topology_entries>>
           ELSE /\ files' = [files EXCEPT
                                ![CurFile] = WriteParcelRuns(@, parcel)]
                /\ offset_bytes' = NextOffset(offset_bytes, ParcelLen(parcel),
                                              PadLen(ParcelLen(parcel)))
                /\ topology_entries' =
                       AppendTopology(topology_entries,
                           TopologyEntry(DbFor(regions, CurSlug), CurFile, pb,
                                         offset_units))
                /\ builder_idx' = builder_idx + 1
                /\ pc' = pc
    /\ UNCHANGED <<mode, regions, region_idx, parcel_builders>>
    /\ UNCHANGED <<encVars, vlvVars, szipVars, extVars>>

\* The assembler returns; build() goes on to the next region.
EndRegion ==
    /\ pc = "parcels"
    /\ builder_idx > Len(parcel_builders)
    /\ region_idx' = region_idx + 1
    /\ pc' = "regions"
    /\ UNCHANGED <<mode, regions, parcel_builders, builder_idx, offset_bytes,
                   files, topology_entries>>
    /\ UNCHANGED <<encVars, vlvVars, szipVars, extVars>>

\* The loop over the regions is over.
EndRegions ==
    /\ pc = "regions"
    /\ region_idx > Len(regions)
    /\ pc' = "cartotop"
    /\ UNCHANGED <<mode, regions, region_idx, parcel_builders, builder_idx,
                   offset_bytes, files, topology_entries>>
    /\ UNCHANGED <<encVars, vlvVars, szipVars, extVars>>

\* The rectangle of the first entry only.
CartotopRectOfFirst(entries) ==
    <<entries[1].rect_min_lon_ntu, entries[1].rect_min_lat_ntu,
      entries[1].rect_max_lon_ntu, entries[1].rect_max_lat_ntu>>

\* write_cartotop_sdl: the leading (min_lon, min_lat, max_lon, max_lat).
CartotopRect(entries) ==
    <<MinOf({entries[k].rect_min_lon_ntu : k \in 1 .. Len(entries)}),
      MinOf({entries[k].rect_min_lat_ntu : k \in 1 .. Len(entries)}),
      MaxOf({entries[k].rect_max_lon_ntu : k \in 1 .. Len(entries)}),
      MaxOf({entries[k].rect_max_lat_ntu : k \in 1 .. Len(entries)})>>

\* write_cartotop_sdl: the 28-byte record of one entry.
CartotopRecord(e) ==
    [rect |-> <<e.rect_min_lon_ntu, e.rect_min_lat_ntu,
                e.rect_max_lon_ntu, e.rect_max_lat_ntu>>,
     db_id |-> e.db_id, parcel_id |-> e.parcel_id,
     layer_type |-> e.layer_type, scale_min |-> e.scale_min,
     scale_max |-> e.scale_max]

\* write_cartotop_sdl: the payload fields and the parcel written; 18 zero
\* bytes for no entries, struct.error for a count beyond 16 bits.
write_cartotop_sdl(entries, m) ==
    IF Len(entries) > 65535 THEN [status |-> "struct.error"]
    ELSE LET payload_len == 18 + 28 * Len(entries)
             blob == encode_bytes(PIDS[m].CARTOTOP, payload_len, 0, 0, 0,
                                  NO_COMPRESSION, 0, 0, FALSE, FALSE)
         IN  [status      |-> blob.status,
              rect        |-> IF entries = <<>> THEN <<0, 0, 0, 0>>
                              ELSE CartotopRect(entries),
              entry_count |-> Len(entries),
              records     |-> [k \in 1 .. Len(entries) |->
                                  CartotopRecord(entries[k])],
              payload_len |-> payload_len,
              file        |-> WriteParcelRuns(<<>>, blob)]

\* build(), step 8.
WriteCartotop ==
    /\ pc = "cartotop"
    /\ LET w == write_cartotop_sdl(topology_entries, mode)
       IN  IF w.status # "ok"
           THEN pc' = "failed" /\ UNCHANGED cartotop
           ELSE /\ cartotop' = [w EXCEPT !.status = "ok"]
                                    @@ [writes |-> cartotop.writes + 1]
                /\ pc' = "control"
    /\ UNCHANGED <<mode, regions, region_idx, parcel_builders, builder_idx,
                   offset_bytes, files, topology_entries>>
    /\ UNCHANGED <<control_files, iso_paths>>
    /\ UNCHANGED <<encVars, vlvVars, szipVars, graphVars>>

\* build(), step 9: REGION.SDL, REGIONS.SDL, INIT.SDL, then MTOC.SDL.
WriteControlFiles ==
    /\ pc = "control"
    /\ control_files' = {"REGION.SDL", "REGIONS.SDL", "INIT.SDL", "MTOC.SDL"}
    /\ pc' = "iso"
    /\ UNCHANGED <<mode, regions, region_idx, parcel_builders, builder_idx,
                   offset_bytes, files, topology_entries>>
    /\ UNCHANGED <<cartotop, iso_paths>>
    /\ UNCHANGED <<encVars, vlvVars, szipVars, graphVars>>

\* The image written straight to the output path.
IsoWriterPathDirect == "out_iso"

\* build(): build_iso(sdl_files=..., out_iso=iso_tmp).
IsoWriterPath == "sdal_tmp.iso"

\* build(), step 10 up to the return of build_iso: a stale sdal_tmp.iso is
\* unlinked, the writer opens its path for writing and either completes the
\* image or raises with part of it written.
BuildIso ==
    /\ pc = "iso"
    /\ \E completes \in BOOLEAN :
          /\ iso_paths' =
                [[iso_paths EXCEPT !["sdal_tmp.iso"] = "absent"]
                    EXCEPT ![IsoWriterPath] =
                        IF completes THEN "image" ELSE "partial"]
          /\ pc' = IF completes THEN "move" ELSE "failed"
    /\ UNCHANGED <<mode, regions, region_idx, parcel_builders, builder_idx,
                   offset_bytes, files, topology_entries>>
    /\ UNCHANGED <<cartotop, control_files>>
    /\ UNCHANGED <<encVars, vlvVars, szipVars, graphVars>>

\* shutil.move(str(iso_tmp), out_iso): fails when there is no sdal_tmp.iso.
MoveIso ==
    /\ pc = "move"
    /\ IF iso_paths["sdal_tmp.iso"] = "absent"
       THEN pc' = "failed" /\ UNCHANGED iso_paths
       ELSE /\ iso_paths' = [iso_paths EXCEPT
                                !["out_iso"] = iso_paths["sdal_tmp.iso"],
                                !["sdal_tmp.iso"] = "absent"]
            /\ pc' = "done"
    /\ UNCHANGED <<mode, regions, region_idx, parcel_builders, builder_idx,
                   offset_bytes, files, topology_entries>>
    /\ UNCHANGED <<cartotop, control_files>>
    /\ UNCHANGED <<encVars, vlvVars, szipVars, graphVars>>

Next ==
    \/ BeginRegion \/ WriteParcel \/ EndRegion \/ EndRegions
    \/ WriteCartotop \/ WriteControlFiles \/ BuildIso \/ MoveIso

Spec == Init /\ [][Next]_vars

----------------------------------------------------------------------------
(* Reading a region file back (validate_sdal_iso.py) *)

\* decode_parcelid: the offset_units field of a header's ParcelID.
decode_parcelid(hdr) == hdr.parcelid.units

\* _iter_parcels: cmp_bits = ((hi << 16) | lo) & 0xFFFFFF,
\* cmp_bytes = (cmp_bits + 7) // 8.
DecodedCmpBytes(hdr) ==
    (((hdr.ucCmpDataSizeHi * 65536 + hdr.usCmpDataSizeLo) % 16777216) + 7)
        \div 8

\* The indices of the header runs of a file, in file order.
HdrSeq(f) == SelectSeq([i \in 1 .. Len(f) |-> i],
                       LAMBDA i : f[i].kind = "hdr")

\* The file the assembler is writing, or wrote last, and the number of
\* parcels it has written to it.
AssembledFile ==
    IF pc = "parcels" THEN files[CurFile]
    ELSE IF region_idx > 1 THEN files[MapFileName[regions[region_idx - 1]]]
    ELSE <<>>
WrittenCount == Len(HdrSeq(AssembledFile))

\* The topology entry recorded for the k-th parcel of the assembled file.
EntryOfWritten(k) ==
    topology_entries[Len(topology_entries) - WrittenCount + k]

----------------------------------------------------------------------------
(* Properties of the region-file assembler *)

\* C1: in the file the assembler writes, the byte position of every parcel
\* header lies in the 4096-byte unit whose number was passed to the parcel's
\* builder: offset_units * 4096 <= byte_offset < (offset_units + 1) * 4096.
C1_OffsetUnitsBracketByteOffset ==
    /\ WrittenCount <= Len(topology_entries)
    /\ \A k \in 1 .. WrittenCount :
          LET f   == AssembledFile
              pos == RunStart(f, HdrSeq(f)[k])
              u   == EntryOfWritten(k).offset_units
          IN  /\ u * unit_size <= pos
              /\ pos < (u + 1) * unit_size
              /\ decode_parcelid(f[HdrSeq(f)[k]].hdr) = u

\* C1 witness: an SDAL-mode region file is complete, with a parcel that
\* follows a padded one and a parcel that follows an unpadded one.
C1_Witness ==
    /\ pc = "done"
    /\ mode = "SDAL"
    /\ WrittenCount >= 3
    /\ \E i \in 1 .. Len(AssembledFile) - 1 :
          /\ AssembledFile[i].kind = "zeros"
          /\ AssembledFile[i + 1].kind = "hdr"
    /\ \E i \in 1 .. Len(AssembledFile) - 1 :
          /\ AssembledFile[i].kind = "payload"
          /\ AssembledFile[i + 1].kind = "hdr"

\* C2: once the region files are written, every topology entry T names a
\* file that has, at byte
\* T.offset_units * 4096, a parcel header whose ParcelID offset_units field
\* equals T.offset_units.
C2_TopologyEntryFindsItsParcel ==
    pc = "done" =>
    \A t \in 1 .. Len(topology_entries) :
        LET T == topology_entries[t]
            f == files[T.sdl_name]
        IN  \E i \in HdrRuns(f) :
               /\ RunStart(f, i) = T.offset_units * unit_size
               /\ decode_parcelid(f[i].hdr) = T.offset_units

\* What build() and the assembler record for the builders of region i.
ExpectedEntries(i) ==
    LET pbs == BuildParcelBuilders(regions[i], mode)
    IN  [k \in 1 .. Len(pbs) |->
            <<DbFor(regions, regions[i]), MapFileName[regions[i]],
              pbs[k].pid, pbs[k].layer_type, pbs[k].rect>>]

EntryKey(T) ==
    <<T.db_id, T.sdl_name, T.parcel_id, T.layer_type,
      <<T.rect_min_lat_ntu, T.rect_max_lat_ntu,
        T.rect_min_lon_ntu, T.rect_max_lon_ntu>>>>

\* The regions whose assembly is complete.
DoneRegions == IF pc = "parcels" THEN region_idx - 1
               ELSE Min(region_idx - 1, Len(regions))

ExpectedTopology ==
    Flatten([i \in 1 .. DoneRegions |-> ExpectedEntries(i)])
    \o (IF pc = "parcels"
        THEN SubSeq(ExpectedEntries(region_idx), 1, builder_idx - 1)
        ELSE <<>>)

\* The parcels of the assembled file are those of the first builders of the
\* list, in list order.
WrittenInBuilderOrder ==
    pc \in {"parcels", "regions", "cartotop", "control", "iso", "move",
            "done"} /\ WrittenCount > 0 =>
        /\ WrittenCount = builder_idx - 1
        /\ \A k \in 1 .. WrittenCount :
              LET f == AssembledFile
                  i == HdrSeq(f)[k]
                  p == Make(parcel_builders[k], decode_parcelid(f[i].hdr), mode)
              IN  /\ f[i].hdr = p.header
                  /\ f[i + 1].kind = "payload"
                  /\ f[i + 1].len = p.body_len

\* C3: parcels are written in builder order, the topology vector holds one
\* entry per builder, region by region in input order and in builder order,
\* and every step leaves the entries already recorded in place.
C3_BuilderOrderAndAppendOnly ==
    /\ [](WrittenInBuilderOrder
          /\ [k \in 1 .. Len(topology_entries) |->
                 EntryKey(topology_entries[k])] = ExpectedTopology)
    /\ [][IsPrefix(topology_entries, topology_entries')]_vars

\* C3 witness: two regions are assembled and the vector holds the entries of
\* both.
C3_Witness ==
    /\ pc = "done"
    /\ Len(regions) = 2
    /\ regions[1] # regions[2]
    /\ Len(topology_entries) = Len(ExpectedEntries(1)) + Len(ExpectedEntries(2))
    /\ Len(ExpectedEntries(1)) >= 3

\* C4: the payload length decoded from a parcel header is the number of
\* payload bytes that follow the header, and only zero bytes follow the
\* payload up to the next unit boundary.
C4_DecodedSizeIsPayloadLength ==
    \A n \in FileNames :
        \A i \in HdrRuns(files[n]) :
            LET f == files[n]
            IN  /\ i + 1 <= Len(f)
                /\ f[i + 1].kind = "payload"
                /\ DecodedCmpBytes(f[i].hdr) = f[i + 1].len
                /\ (RunStart(f, i + 2) % unit_size # 0 =>
                       /\ i + 2 <= Len(f)
                       /\ f[i + 2].kind = "zeros"
                       /\ RunStart(f, i + 3) % unit_size = 0)

\* C6: every parcel written into a region map file has a payload of at most
\* 65,000 bytes.
C6_PayloadAtMostCeiling ==
    \A n \in FileNames :
        \A i \in 1 .. Len(files[n]) :
            files[n][i].kind = "payload" => files[n][i].len <= 65000

----------------------------------------------------------------------------
(* Direct invocations of encode_bytes and encode_strings *)

\* A list of strings is a sequence of runs [n, len]: n strings whose
\* transliterated Latin-1 form is len bytes long.
StringCount(strings) == SumSeq([i \in 1 .. Len(strings) |-> strings[i].n])

\* buf: for each string its bytes and one NUL, and nothing else.
StringsPayloadLen(strings) ==
    SumSeq([i \in 1 .. Len(strings) |-> strings[i].n * (strings[i].len + 1)])

encode_strings(pid, strings, compress_type, offset_units) ==
    encode_bytes(pid, StringsPayloadLen(strings), 1, 0, 0, compress_type,
                 offset_units, 0, FALSE, FALSE)

\* What a call returned: the exception, or the parcels in the returned
\* bytes with the sections of their payloads and the strings they hold.
Returned(p, sections, count) ==
    IF p.status # "ok"
    THEN [status |-> p.status, parcels |-> <<>>]
    ELSE [status  |-> "ok",
          parcels |-> <<[header   |-> p.header,
                         len      |-> ParcelLen(p),
                         body_len |-> p.body_len,
                         sections |-> sections,
                         count    |-> count]>>]

PayloadLens == {0, 1, 100, 4076, 64999, 65000, 65001, 65535, 65536, 2097152}
OffsetUnitsArgs == {0, 1, 16777215, 16777216}
SizeIndexArgs == {0, 63, 64}
PidArgs == {0, 1, PIDS.OEM.CARTO}
CompressTypes == {NO_COMPRESSION, SZIP_COMPRESSION}

StringLists ==
    {<<>>,
     <<[n |-> 1, len |-> 0]>>,
     <<[n |-> 3, len |-> 5], [n |-> 2, len |-> 0]>>,
     <<[n |-> 2000, len |-> 20]>>,
     <<[n |-> 2001, len |-> 20]>>,
     <<[n |-> 5000, len |-> 20]>>,
     <<[n |-> 1, len |-> 70000]>>}

InitEnc ==
    /\ IdleEnc /\ IdleVlv /\ IdleSzip /\ IdleExt
    /\ mode = "OEM" /\ regions = <<>> /\ pc = "idle" /\ region_idx = 1
    /\ parcel_builders = <<>> /\ builder_idx = 1 /\ offset_bytes = 0
    /\ files = [n \in FileNames |-> <<>>] /\ topology_entries = <<>>

CallEncodeBytes ==
    /\ pc = "idle"
    /\ \E payload_len \in PayloadLens, compress_type \in CompressTypes,
          offset_units \in OffsetUnitsArgs, size_index \in SizeIndexArgs,
          pid \in PidArgs :
          /\ enc_call' = [fn |-> "encode_bytes", pid |-> pid,
                          payload_len |-> payload_len,
                          compress_type |-> compress_type,
                          offset_units |-> offset_units,
                          size_index |-> size_index]
          /\ enc_result' =
                 Returned(encode_bytes(pid, payload_len, 1, 0, 0, compress_type,
                                       offset_units, size_index, FALSE, FALSE),
                          <<"payload">>, 0)
    /\ UNCHANGED <<buildVars, vlvVars, szipVars, extVars>>

CallEncodeStrings ==
    /\ pc = "idle"
    /\ \E strings \in StringLists, compress_type \in CompressTypes,
          offset_units \in OffsetUnitsArgs :
          /\ enc_call' = [fn |-> "encode_strings", strings |-> strings,
                          compress_type |-> compress_type,
                          offset_units |-> offset_units]
          /\ enc_result' =
                 Returned(encode_strings(PIDS.OEM.CARTO, strings, compress_type,
                                         offset_units),
                          <<"strings">>, StringCount(strings))
    /\ UNCHANGED <<buildVars, vlvVars, szipVars, extVars>>

MaxRoutingRoads == 2
MaxRoadVertices == 3
RoutingRoadLists ==
    UNION {[1 .. k -> [id : {1}, n : 0 .. MaxRoadVertices]] :
              k \in 0 .. MaxRoutingRoads}

CallEncodeRoutingParcel ==
    /\ pc = "idle"
    /\ \E roads \in RoutingRoadLists, offset_units \in {0, 1, 16777215} :
          LET graph == build_routing_graph_from_roads_df(roads)
          IN  /\ enc_call' = [fn |-> "encode_routing_parcel",
                              roads |-> roads, graph |-> graph,
                              offset_units |-> offset_units]
              /\ enc_result' =
                     Returned(encode_routing_parcel(PIDS.OEM.ROUTING, graph, 1,
                                  0, 0, offset_units, <<0, 0, 0, 0>>,
                                  NO_COMPRESSION, 0),
                              RoutingPayloadLayout(graph), 0)
    /\ UNCHANGED <<buildVars, vlvVars, szipVars, extVars>>

\* encode_locale_table: two u32 counts, an 8-byte code per language
\* ("NATIVE" and the supported ones), a 32-byte name per country and
\* language.
encode_locale_table(n_countries, n_langs) ==
    8 + 8 * (n_langs + 1) + 32 * (n_langs + 1) * n_countries

\* encode_symbol_table: 256 entries of 3 bytes, then the symbol string: one
\* character for each of the 95 printable codes, four for each other code.
encode_symbol_table == 256 * 3 + (95 + 161 * 4)

\* encode_glb_media_header: the fields of the 512-byte payload that depend on
\* the arguments.
encode_glb_media_header(n_regions, offset_locale, offset_compress) ==
    [len |-> 512, usMaxRegions |-> n_regions,
     offset_locale |-> offset_locale, offset_compress |-> offset_compress]

\* write_init_sdl: the file written, and the GLB_MEDIA_HEADER payload.
write_init_sdl(n_countries, n_langs, n_regions) ==
    LET payload_locale == encode_locale_table(n_countries, n_langs)
        payload_symbol == encode_symbol_table
        parcel_header_size == 532
        pad1 == PadLen(parcel_header_size)
        offset_locale_bytes_rough == parcel_header_size + pad1
        offset_locale_units == offset_locale_bytes_rough \div unit_size
        locale_parcel_size_rough ==
            ParcelLen(encode_bytes(PIDS.SDAL.LOCALE, payload_locale, 1, 0, 0,
                                   NO_COMPRESSION, offset_locale_units, 0,
                                   FALSE, FALSE))
        offset_compress_units ==
            offset_locale_units + (locale_parcel_size_rough \div unit_size)
        payload_header ==
            encode_glb_media_header(n_regions, offset_locale_units,
                                    offset_compress_units)
        parcel_header ==
            encode_bytes(PIDS.SDAL.GLB_MEDIA_HEADER, payload_header.len, 0, 0,
                         0, NO_COMPRESSION, 0, 0, FALSE, FALSE)
        f1   == WriteParcelRuns(<<>>, parcel_header)
        off1 == NextOffset(0, ParcelLen(parcel_header),
                           PadLen(ParcelLen(parcel_header)))
        parcel_locale ==
            encode_bytes(PIDS.SDAL.LOCALE, payload_locale, 0, 0, 0,
                         NO_COMPRESSION, off1 \div (2 ^ unit_shift), 0,
                         FALSE, FALSE)
        f2   == WriteParcelRuns(f1, parcel_locale)
        off2 == NextOffset(off1, ParcelLen(parcel_locale),
                           PadLen(ParcelLen(parcel_locale)))
        parcel_symbol ==
            encode_bytes(PIDS.SDAL.SYMBOL, payload_symbol, 0, 0, 0,
                         NO_COMPRESSION, off2 \div (2 ^ unit_shift), 0,
                         FALSE, FALSE)
    IN  [status |-> "ok",
         file |-> WriteParcelRuns(f2, parcel_symbol),
         payload_header |-> payload_header]

MaxLangs == 2
CountryCounts == {0, 1, 63, 64, 250}

\* build(), step 9: write_init_sdl is called the same way in both format
\* modes.
CallWriteInitSdl ==
    /\ pc = "idle"
    /\ \E format_mode \in {"OEM", "SDAL"}, n_countries \in CountryCounts,
          n_langs \in 1 .. MaxLangs, n_regions \in 1 .. MaxRegions :
          /\ enc_call' = [fn |-> "write_init_sdl",
                          format_mode |-> format_mode,
                          n_countries |-> n_countries, n_langs |-> n_langs,
                          n_regions |-> n_regions]
          /\ enc_result' = write_init_sdl(n_countries, n_langs, n_regions)
    /\ UNCHANGED <<buildVars, vlvVars, szipVars, extVars>>

NextEnc ==
    \/ CallEncodeBytes \/ CallEncodeStrings \/ CallEncodeRoutingParcel
    \/ CallWriteInitSdl

SpecEnc == InitEnc /\ [][NextEnc]_vars

\* C5: a call of the parcel encoder returns 20 + compressed_payload_len
\* bytes or fails with ParcelTooLarge, and it fails with ParcelTooLarge
\* whenever the payload is longer than 65,000 bytes.
C5_ReturnsParcelOrParcelTooLarge ==
    enc_call.fn = "encode_bytes" =>
        /\ \/ enc_result.status = "ParcelTooLarge"
           \/ /\ enc_result.status = "ok"
              /\ Len(enc_result.parcels) = 1
              /\ enc_result.parcels[1].len
                     = PCL_HEADER_SIZE + enc_result.parcels[1].body_len
              /\ (enc_call.compress_type = NO_COMPRESSION =>
                     enc_result.parcels[1].body_len = enc_call.payload_len)
        /\ (enc_call.payload_len > 65000 =>
               enc_result.status = "ParcelTooLarge")

CeilDiv(a, b) == (a + b - 1) \div b

\* C7: encoding N strings returns ceil(N / 2000) parcels of at most 2,000
\* strings each, every one with a count, an offset table and a string block
\* and a payload below 65,000 bytes.
C7_StringsChunkedBy2000 ==
    (/\ enc_call.fn = "encode_strings"
     /\ enc_call.compress_type = NO_COMPRESSION
     /\ enc_call.offset_units < 16777216
     /\ (\A i \in 1 .. Len(enc_call.strings) : enc_call.strings[i].len <= 20))
    =>  /\ enc_result.status = "ok"
        /\ Len(enc_result.parcels) = CeilDiv(StringCount(enc_call.strings), 2000)
        /\ \A k \in 1 .. Len(enc_result.parcels) :
              /\ enc_result.parcels[k].count <= 2000
              /\ enc_result.parcels[k].sections
                     = <<"count", "offsets", "strings">>
              /\ enc_result.parcels[k].body_len < 65000

----------------------------------------------------------------------------
(* encode_vlv_type1 applied to the values of a list, one after the other *)

Type1Max == 1114095
MaxVlvSeq == 3

\* Values at the ends of the ranges of the encoder and of the documented
\* layout, and values outside [0, Type1Max].
EdgeValues == {-1, 0, 127, 128, 239, 240, 4079, 4080, 16383, 16384,
               65519, 65520, Type1Max, Type1Max + 1, 2097151, 2097152}

EdgeLists == UNION {[1 .. k -> EdgeValues] : k \in 2 .. MaxVlvSeq}

InitVlv ==
    /\ \/ \E v \in -1 .. Type1Max + 1 : vlv_in = <<v>>
       \/ vlv_in \in EdgeLists
    /\ vlv_pos = 0
    /\ vlv_out = <<>>
    /\ vlv_status = "ok"
    /\ IdleEnc /\ IdleSzip /\ IdleExt
    /\ mode = "OEM" /\ regions = <<>> /\ pc = "idle" /\ region_idx = 1
    /\ parcel_builders = <<>> /\ builder_idx = 1 /\ offset_bytes = 0
    /\ files = [n \in FileNames |-> <<>>] /\ topology_entries = <<>>

\* data_buffer.write(encode_vlv_type1(value)), the exception ending the run.
EncodeNext ==
    /\ vlv_status = "ok"
    /\ vlv_pos < Len(vlv_in)
    /\ LET r == encode_vlv_type1(vlv_in[vlv_pos + 1])
       IN  /\ vlv_status' = r.status
           /\ vlv_out' = vlv_out \o r.bytes
           /\ vlv_pos' = IF r.status = "ok" THEN vlv_pos + 1 ELSE vlv_pos
    /\ UNCHANGED <<vlv_in, buildVars, encVars, szipVars, extVars>>

NextVlv == EncodeNext

SpecVlv == InitVlv /\ [][NextVlv]_vars

\* A reader of the layout encode_vlv_type1 documents: the leading byte's
\* high bits give the width (0xxxxxxx, 10xxxxxx, 110xxxxx, 111xxxxx).
Type1Width(lead) ==
    IF lead < 128 THEN 1 ELSE IF lead < 192 THEN 2
    ELSE IF lead < 224 THEN 3 ELSE 4

Type1Value(b) ==
    CASE Len(b) = 1 -> b[1]
      [] Len(b) = 2 -> (b[1] - 128) * 256 + b[2]
      [] Len(b) = 3 -> (b[1] - 192) * 65536 + b[2] * 256 + b[3]
      [] Len(b) = 4 -> (b[1] - 224) * 16777216 + b[2] * 65536
                           + b[3] * 256 + b[4]

\* The values of a byte string, or <<-1>> when it ends inside a value.
RECURSIVE decode_vlv_type1_seq(_)
decode_vlv_type1_seq(bytes) ==
    IF bytes = <<>> THEN <<>>
    ELSE LET w == Type1Width(bytes[1])
         IN  IF Len(bytes) < w THEN <<-1>>
             ELSE <<Type1Value(SubSeq(bytes, 1, w))>>
                  \o decode_vlv_type1_seq(SubSeq(bytes, w + 1, Len(bytes)))

InType1Range(v) == 0 <= v /\ v <= Type1Max

\* C9: the bytes written for values of [0, 1114095] decode, by a reader
\* that takes the width of each value from its leading byte, to exactly the
\* values encoded, each value filling the width its leading byte announces.
C9_Type1RoundTrips ==
    (\A i \in 1 .. vlv_pos : InType1Range(vlv_in[i])) =>
        /\ decode_vlv_type1_seq(vlv_out) = SubSeq(vlv_in, 1, vlv_pos)
        /\ (vlv_pos < Len(vlv_in) /\ InType1Range(vlv_in[vlv_pos + 1]) =>
               /\ encode_vlv_type1(vlv_in[vlv_pos + 1]).status = "ok"
               /\ Len(encode_vlv_type1(vlv_in[vlv_pos + 1]).bytes)
                      = Type1Width(encode_vlv_type1(vlv_in[vlv_pos + 1]).bytes[1]))

\* C9 witness: three values of different widths, the largest of the range
\* among them, have been written one after the other.
C9_Witness ==
    /\ vlv_pos = 3
    /\ vlv_in = <<Type1Max, 127, 16383>>
    /\ Len(vlv_out) = 6

\* The layout of the four-range form: n <= 239, n <= 4079, n <= 65519 and
\* n <= 1114095, and OverflowError outside.
Type1FourRange(n) ==
    IF n < 0 \/ n > 1114095 THEN [status |-> "OverflowError", bytes |-> <<>>]
    ELSE IF n <= 239 THEN [status |-> "ok", bytes |-> <<n>>]
    ELSE IF n <= 4079
    THEN [status |-> "ok",
          bytes  |-> <<240 + (((n - 240) \div 256) % 16), (n - 240) % 256>>]
    ELSE IF n <= 65519
    THEN [status |-> "ok",
          bytes  |-> <<255, ((n - 4080) \div 256) % 256, (n - 4080) % 256>>]
    ELSE [status |-> "ok",
          bytes  |-> <<255, 240 + (((n - 65520) \div 65536) % 16),
                       ((n - 65520) \div 256) % 256, (n - 65520) % 256>>]

\* C10: encode_vlv_type1 returns the bytes of the four-range layout for
\* every value of [0, 1114095] and fails with OverflowError outside.
C10_Type1FourRangeLayout ==
    /\ \A i \in 1 .. vlv_pos :
          encode_vlv_type1(vlv_in[i]) = Type1FourRange(vlv_in[i])
    /\ (vlv_status # "ok" =>
           /\ vlv_status = "OverflowError"
           /\ ~InType1Range(vlv_in[vlv_pos + 1]))

----------------------------------------------------------------------------
(* szip_compressor.py: LZ77 tokens *)

WINDOW_SIZE == 32768
MAX_MATCH_LENGTH == 258
MIN_MATCH_LENGTH == 3
MAX_BITS == 15
EOD_CODE == 256
FIRST_LENGTH_CODE == 257
MAX_LENGTH_CODE == 285

\* (base, extra bits)
LENGTH_MAP ==
    <<<<3, 0>>, <<4, 0>>, <<5, 1>>, <<7, 1>>, <<9, 2>>, <<13, 2>>, <<17, 3>>,
      <<25, 3>>, <<33, 4>>, <<49, 4>>, <<65, 5>>, <<97, 5>>, <<129, 6>>,
      <<193, 6>>, <<257, 7>>, <<385, 7>>, <<513, 8>>, <<769, 8>>, <<1025, 9>>,
      <<1537, 9>>, <<2049, 10>>, <<3073, 10>>, <<4097, 11>>, <<6145, 11>>,
      <<8193, 12>>, <<12289, 12>>, <<16385, 13>>, <<24577, 13>>>>

DISTANCE_MAP ==
    <<<<1, 0>>, <<2, 0>>, <<3, 1>>, <<5, 1>>, <<7, 2>>, <<11, 2>>, <<15, 3>>,
      <<23, 3>>, <<31, 4>>, <<47, 4>>, <<63, 5>>, <<95, 5>>, <<127, 6>>,
      <<191, 6>>, <<255, 7>>, <<383, 7>>, <<511, 8>>, <<767, 8>>, <<1023, 9>>,
      <<1535, 9>>, <<2047, 10>>, <<3071, 10>>, <<4095, 11>>, <<6143, 11>>,
      <<8191, 12>>, <<12287, 12>>, <<16383, 13>>, <<24575, 13>>,
      <<32767, 13>>>>


\* The inner loop of find_best_match for the candidate at distance offset
\* from current_pos (0-based): the match stops at the end of the search
\* buffer, of the data and at MAX_MATCH_LENGTH.
MatchLenAt(data, current_pos, offset) ==
    LET max_len == Min(Min(MAX_MATCH_LENGTH, Len(data) - current_pos), offset)
        stops == {i \in 1 .. max_len :
                     data[current_pos - offset + i] # data[current_pos + i]}
    IN  IF stops = {} THEN max_len ELSE MinOf(stops) - 1

\* find_best_match with ">=" in place of ">" where a candidate replaces
\* the best: the farthest of the longest candidates is kept.
find_best_match_farthest(data, current_pos) ==
    LET start_search == Max(0, current_pos - WINDOW_SIZE)
        offsets == {o \in 1 .. (current_pos - start_search) :
                       MatchLenAt(data, current_pos, o) >= MIN_MATCH_LENGTH}
    IN  IF offsets = {} THEN <<0, 0>>
        ELSE LET best_length ==
                     MaxOf({MatchLenAt(data, current_pos, o) : o \in offsets})
             IN  <<MaxOf({o \in offsets :
                            MatchLenAt(data, current_pos, o) = best_length}),
                   best_length>>

\* <<best_offset, best_length>>: candidates are visited from the closest,
\* and a candidate replaces the best only when strictly longer.
find_best_match(data, current_pos) ==
    LET start_search == Max(0, current_pos - WINDOW_SIZE)
        offsets == {o \in 1 .. (current_pos - start_search) :
                       MatchLenAt(data, current_pos, o) >= MIN_MATCH_LENGTH}
    IN  IF offsets = {} THEN <<0, 0>>
        ELSE LET best_length ==
                     MaxOf({MatchLenAt(data, current_pos, o) : o \in offsets})
             IN  <<MinOf({o \in offsets :
                            MatchLenAt(data, current_pos, o) = best_length}),
                   best_length>>

LZ77Token(type, offset, length, value) ==
    [type |-> type, offset |-> offset, length |-> length, value |-> value]

RECURSIVE TokenizeFrom(_, _)
TokenizeFrom(data, current_pos) ==
    IF current_pos >= Len(data) THEN <<>>
    ELSE LET m == find_best_match(data, current_pos)
         IN  IF m[2] >= MIN_MATCH_LENGTH
             THEN <<LZ77Token("MATCH", m[1], m[2], 0)>>
                  \o TokenizeFrom(data, current_pos + m[2])
             ELSE <<LZ77Token("LITERAL", 0, 0, data[current_pos + 1])>>
                  \o TokenizeFrom(data, current_pos + 1)

lz77_tokenize(data) == TokenizeFrom(data, 0)

\* <<code, extra bits>> of the first range the value falls into.
RangeCode(map, first_code, v) ==
    LET hits == {k \in 1 .. Len(map) : v < map[k][1] + 2 ^ map[k][2]}
    IN  <<first_code + MinOf(hits) - 1, map[MinOf(hits)][2]>>

get_length_code(length) ==
    IF length = MAX_MATCH_LENGTH THEN <<MAX_LENGTH_CODE, 0>>
    ELSE RangeCode(LENGTH_MAP, FIRST_LENGTH_CODE, length)

get_offset_code(offset) == RangeCode(DISTANCE_MAP, 0, offset)

\* A frequency dict is a function from the symbols counted to their counts.
calculate_huffman_frequencies(tokens) ==
    LET lits == {i \in 1 .. Len(tokens) : tokens[i].type = "LITERAL"}
        mats == {i \in 1 .. Len(tokens) : tokens[i].type = "MATCH"}
    IN  [literal_freq |->
             [s \in {tokens[i].value : i \in lits} \cup {EOD_CODE} |->
                 Cardinality({i \in lits : tokens[i].value = s})
                 + (IF s = EOD_CODE THEN 1 ELSE 0)],
         length_freq |->
             [s \in {get_length_code(tokens[i].length)[1] : i \in mats} |->
                 Cardinality({i \in mats :
                     get_length_code(tokens[i].length)[1] = s})],
         offset_freq |->
             [s \in {get_offset_code(tokens[i].offset)[1] : i \in mats} |->
                 Cardinality({i \in mats :
                     get_offset_code(tokens[i].offset)[1] = s})]]

----------------------------------------------------------------------------
(* szip_compressor.py: canonical Huffman codes *)

\* heappop: the least (frequency, tuple of symbols); the tuples of distinct
\* nodes differ in their first symbol.
HeapMin(nodes) ==
    CHOOSE n \in nodes :
        \A m \in nodes :
            n.freq < m.freq \/ (n.freq = m.freq /\ n.syms[1] <= m.syms[1])

RECURSIVE MergeNodes(_, _)
MergeNodes(nodes_heap, symbol_lengths) ==
    IF Cardinality(nodes_heap) <= 1 THEN symbol_lengths
    ELSE LET n1   == HeapMin(nodes_heap)
             n2   == HeapMin(nodes_heap \ {n1})
             both == n1.syms \o n2.syms
         IN  MergeNodes((nodes_heap \ {n1, n2})
                            \cup {[freq |-> n1.freq + n2.freq, syms |-> both]},
                        [x \in DOMAIN symbol_lengths |->
                            IF \E k \in 1 .. Len(both) : both[k] = x
                            THEN symbol_lengths[x] + 1
                            ELSE symbol_lengths[x]])

\* final_lengths, indexed by symbol 0 .. max_symbols - 1.
build_initial_lengths(frequencies, max_symbols) ==
    LET used == {x \in DOMAIN frequencies : frequencies[x] > 0}
        symbol_lengths ==
            MergeNodes({[freq |-> frequencies[x], syms |-> <<x>>] : x \in used},
                       [x \in used |-> 0])
    IN  [x \in 0 .. max_symbols - 1 |->
            IF x \in used THEN symbol_lengths[x] ELSE 0]

limit_and_canonicalize_lengths(lengths, max_bits) ==
    [x \in DOMAIN lengths |-> Min(lengths[x], max_bits)]

RECURSIVE NextCodeOf(_, _, _)
NextCodeOf(lengths, min_len, length) ==
    IF length <= min_len THEN 0
    ELSE (NextCodeOf(lengths, min_len, length - 1)
          + Cardinality({x \in DOMAIN lengths : lengths[x] = length - 1})) * 2

\* Symbol -> <<code value, code length>>, for the symbols of nonzero length.
get_canonical_codes_map(lengths) ==
    LET coded   == {x \in DOMAIN lengths : lengths[x] > 0}
        min_len == MinOf({lengths[x] : x \in coded})
    IN  [x \in coded |->
            <<NextCodeOf(lengths, min_len, lengths[x])
                + Cardinality({y \in coded : lengths[y] = lengths[x] /\ y < x}),
              lengths[x]>>]

build_canonical_huffman_codes(frequencies, max_symbols) ==
    LET final_lengths ==
            limit_and_canonicalize_lengths(
                build_initial_lengths(frequencies, max_symbols), MAX_BITS)
    IN  [code_lengths |-> final_lengths,
         code_map     |-> get_canonical_codes_map(final_lengths)]

----------------------------------------------------------------------------
(* szip_compressor.py: the token bitstream *)

\* BitWriter.write_bits: num_bits bits of value, least significant first.
write_bits(value, num_bits) ==
    [k \in 1 .. num_bits |-> (value \div (2 ^ (k - 1))) % 2]

\* BitWriter.flush: the last byte is completed with zero bits.
flush(bits) == bits \o [k \in 1 .. ((8 - (Len(bits) % 8)) % 8) |-> 0]

KeyError == [status |-> "KeyError", bits |-> <<>>]
Written(bits) == [status |-> "ok", bits |-> bits]

\* code_map[symbol] followed by write_bits.
WriteSymbol(codes, symbol) ==
    IF symbol \in DOMAIN codes.code_map
    THEN Written(write_bits(codes.code_map[symbol][1],
                            codes.code_map[symbol][2]))
    ELSE KeyError

\* The bits of one token; the extra bits are written with extra_value = 0.
EncodeToken(token, lit_codes, len_codes, off_codes) ==
    IF token.type = "LITERAL" THEN WriteSymbol(lit_codes, token.value)
    ELSE LET lc == get_length_code(token.length)
             oc == get_offset_code(token.offset)
             l  == WriteSymbol(len_codes, lc[1])
             o  == WriteSymbol(off_codes, oc[1])
         IN  IF l.status # "ok" THEN KeyError
             ELSE IF o.status # "ok" THEN KeyError
             ELSE Written(l.bits \o write_bits(0, lc[2])
                          \o o.bits \o write_bits(0, oc[2]))

RECURSIVE EncodeFrom(_, _, _, _, _)
EncodeFrom(tokens, k, lit_codes, len_codes, off_codes) ==
    IF k > Len(tokens) THEN WriteSymbol(lit_codes, EOD_CODE)
    ELSE LET t == EncodeToken(tokens[k], lit_codes, len_codes, off_codes)
             r == EncodeFrom(tokens, k + 1, lit_codes, len_codes, off_codes)
         IN  IF t.status # "ok" THEN KeyError
             ELSE IF r.status # "ok" THEN KeyError
             ELSE Written(t.bits \o r.bits)

encode_tokens(tokens, lit_codes, len_codes, off_codes) ==
    LET r == EncodeFrom(tokens, 1, lit_codes, len_codes, off_codes)
    IN  IF r.status # "ok" THEN KeyError ELSE Written(flush(r.bits))

\* The three code-length tables of the tree block (rle_encoded_data).
encode_huffman_trees(freqs) ==
    [lit_lengths |->
         build_canonical_huffman_codes(freqs.literal_freq, 257).code_lengths,
     len_lengths |->
         build_canonical_huffman_codes(freqs.length_freq, 29).code_lengths,
     off_lengths |->
         build_canonical_huffman_codes(freqs.offset_freq, 30).code_lengths]

\* compress_szip from the tokens on: the tree block and the token bits, or
\* the exception raised.
CompressTokens(tokens) ==
    LET freqs     == calculate_huffman_frequencies(tokens)
        lit_codes == build_canonical_huffman_codes(freqs.literal_freq, 257)
        len_codes == build_canonical_huffman_codes(freqs.length_freq, 29)
        off_codes == build_canonical_huffman_codes(freqs.offset_freq, 30)
        data      == encode_tokens(tokens, lit_codes, len_codes, off_codes)
    IN  IF data.status # "ok"
        THEN [status |-> data.status, trees |-> <<>>, bits |-> <<>>]
        ELSE [status |-> "ok", trees |-> encode_huffman_trees(freqs),
              bits |-> data.bits]

compress_szip(data) == CompressTokens(lz77_tokenize(data))

----------------------------------------------------------------------------
(* compress_szip applied to a byte string *)

MaxSzipLen == 6
SzipBytes == {97, 98}
SzipInputs == UNION {[1 .. k -> SzipBytes] : k \in 0 .. MaxSzipLen}

InitSzip ==
    /\ szip_in \in SzipInputs
    /\ szip_pc = "start"
    /\ szip_tokens = <<>>
    /\ szip_out = [status |-> "none"]
    /\ lz_pos = 0
    /\ IdleEnc /\ IdleVlv /\ IdleExt
    /\ mode = "OEM" /\ regions = <<>> /\ pc = "idle" /\ region_idx = 1
    /\ parcel_builders = <<>> /\ builder_idx = 1 /\ offset_bytes = 0
    /\ files = [n \in FileNames |-> <<>>] /\ topology_entries = <<>>

\* compress_szip, step 1.
Tokenize ==
    /\ szip_pc = "start"
    /\ szip_tokens' = lz77_tokenize(szip_in)
    /\ szip_pc' = "tokenized"
    /\ UNCHANGED <<szip_in, szip_out, lz_pos, buildVars, encVars, vlvVars,
                   extVars>>

\* compress_szip, steps 2 to 6.
Compress ==
    /\ szip_pc = "tokenized"
    /\ szip_out' = CompressTokens(szip_tokens)
    /\ szip_pc' = "done"
    /\ UNCHANGED <<szip_in, szip_tokens, lz_pos, buildVars, encVars, vlvVars,
                   extVars>>

NextSzip == Tokenize \/ Compress

SpecSzip == InitSzip /\ [][NextSzip]_vars

\* A canonical-Huffman reader: the code of a symbol is read bit by bit,
\* first bit most significant, until it is a code of the table.
MsbValue(bits, pos, n) ==
    SumSeq([k \in 1 .. n |-> bits[pos + k - 1] * (2 ^ (n - k))])

ReadSymbol(bits, pos, code_map) ==
    LET fits == {n \in 1 .. MAX_BITS :
                    /\ pos + n - 1 <= Len(bits)
                    /\ \E x \in DOMAIN code_map :
                          code_map[x] = <<MsbValue(bits, pos, n), n>>}
    IN  IF fits = {} THEN <<-1, pos>>
        ELSE LET n == MinOf(fits)
             IN  <<CHOOSE x \in DOMAIN code_map :
                       code_map[x] = <<MsbValue(bits, pos, n), n>>,
                   pos + n>>

\* The bytes read up to the end-of-block symbol; -1 marks a stream that
\* ends, or leaves the literal table, before it.
RECURSIVE ReadFrom(_, _, _)
ReadFrom(bits, pos, lit_map) ==
    LET r == ReadSymbol(bits, pos, lit_map)
    IN  IF r[1] = -1 THEN <<-1>>
        ELSE IF r[1] = EOD_CODE THEN <<>>
        ELSE <<r[1]>> \o ReadFrom(bits, r[2], lit_map)

szip_read(out) ==
    ReadFrom(out.bits, 1, get_canonical_codes_map(out.trees.lit_lengths))

\* C8: compress_szip completes on every input, and a reader given the
\* emitted code tables and token bitstream reads the input back.
C8_SzipRoundTrips ==
    szip_pc = "done" =>
        /\ szip_out.status = "ok"
        /\ szip_read(szip_out) = szip_in

(***************************************************************************)
(* main.py: build_routing_graph_from_roads_df, record by record.  A        *)
(* coordinate is the pair <<lon, lat>>; nodes_map is the dict as its set   *)
(* of <<key, node id>> items; node_records is the dict as a function of    *)
(* the node id.  The segment length is left out: no claim reads it.        *)
(***************************************************************************)
NodeRecord(node_id, lat_deg, lon_deg) ==
    [node_id |-> node_id, lat_deg |-> lat_deg, lon_deg |-> lon_deg,
     segment_ids |-> <<>>]

SegmentRecord(seg_id, from_node_id, to_node_id) ==
    [seg_id |-> seg_id, from_node_id |-> from_node_id,
     to_node_id |-> to_node_id, speed_class |-> 0, oneway |-> 0]

\* nodes_map.get(key): the id stored under key, or -1 for None.
NodesMapGet(nm, key) ==
    IF \E e \in nm : e[1] = key
    THEN (CHOOSE e \in nm : e[1] = key)[2]
    ELSE -1

\* The first loop over coords: a node is created for a key not yet in
\* nodes_map; line_node_ids collects the id of every coordinate.
RECURSIVE AddLineNodes(_, _, _)
AddLineNodes(coords, i, g) ==
    IF i > Len(coords) THEN g
    ELSE LET key == coords[i]
             got == NodesMapGet(g.nodes_map, key)
             nid == IF got = -1 THEN g.next_node_id ELSE got
             g1  == IF got = -1
                    THEN [g EXCEPT
                            !.nodes_map = @ \cup {<<key, nid>>},
                            !.node_records =
                                [k \in DOMAIN @ \cup {nid} |->
                                    IF k = nid
                                    THEN NodeRecord(nid, key[2], key[1])
                                    ELSE @[k]],
                            !.next_node_id = @ + 1]
                    ELSE g
         IN  AddLineNodes(coords, i + 1,
                 [g1 EXCEPT !.line_node_ids = Append(@, nid)])

\* segment_ids.append(seg_id) on one node record.
AppendSegmentId(nr, nid, seg_id) ==
    [nr EXCEPT ![nid].segment_ids = Append(@, seg_id)]

\* The second loop: one segment per consecutive pair, appended to the
\* segment_ids of n1 and then of n2.
RECURSIVE AddLineSegments(_, _)
AddLineSegments(i, g) ==
    IF i > Len(g.line_node_ids) - 1 THEN g
    ELSE LET n1  == g.line_node_ids[i]
             n2  == g.line_node_ids[i + 1]
             seg == SegmentRecord(g.next_seg_id, n1, n2)
         IN  AddLineSegments(i + 1,
                 [g EXCEPT
                    !.segments = Append(@, seg),
                    !.node_records =
                        AppendSegmentId(AppendSegmentId(@, n1, seg.seg_id),
                                        n2, seg.seg_id),
                    !.next_seg_id = @ + 1])

\* One iteration of the loop over roads_df.iterrows().
ProcessCoords(coords, g) ==
    IF Len(coords) < 2 THEN g
    ELSE AddLineSegments(1,
            AddLineNodes(coords, 1, [g EXCEPT !.line_node_ids = <<>>]))

\* node_list: the node records sorted by node id.
RECURSIVE SortedNodeList(_, _)
SortedNodeList(nr, ids) ==
    IF ids = {} THEN <<>>
    ELSE LET k == MinOf(ids)
         IN  <<nr[k]>> \o SortedNodeList(nr, ids \ {k})

MaxRows == 2
MaxCoords == 3
GraphPoints == {<<0, 0>>, <<-1, 2>>}
\* The coordinates of one geometry: none for an empty geometry, two or more
\* for a line.
GraphCoordLists ==
    {<<>>} \cup UNION {[1 .. n -> GraphPoints] : n \in 2 .. MaxCoords}
GraphRowLists == UNION {[1 .. n -> GraphCoordLists] : n \in 0 .. MaxRows}

InitGraph ==
    /\ graph_rows \in GraphRowLists
    /\ graph_row = 0 /\ nodes_map = {}
    /\ node_records = [i \in {} |-> 0] /\ segments = <<>>
    /\ next_node_id = 0 /\ next_seg_id = 0
    /\ graph_out = [status |-> "none"] /\ graph_pc = "rows"
    /\ IdleBuild /\ IdleEnc /\ IdleVlv /\ IdleSzip /\ IdleOut

ProcessRow ==
    /\ graph_pc = "rows"
    /\ graph_row < Len(graph_rows)
    /\ LET g == ProcessCoords(graph_rows[graph_row + 1],
                    [nodes_map |-> nodes_map, node_records |-> node_records,
                     segments |-> segments, next_node_id |-> next_node_id,
                     next_seg_id |-> next_seg_id, line_node_ids |-> <<>>])
       IN  /\ nodes_map' = g.nodes_map
           /\ node_records' = g.node_records
           /\ segments' = g.segments
           /\ next_node_id' = g.next_node_id
           /\ next_seg_id' = g.next_seg_id
    /\ graph_row' = graph_row + 1
    /\ UNCHANGED <<graph_rows, graph_out, graph_pc>>
    /\ UNCHANGED <<buildVars, encVars, vlvVars, szipVars, outVars>>

ReturnGraph ==
    /\ graph_pc = "rows"
    /\ graph_row = Len(graph_rows)
    /\ graph_out' = [status |-> "ok",
                     node_list |-> SortedNodeList(node_records,
                                                  DOMAIN node_records),
                     segments |-> segments]
    /\ graph_pc' = "done"
    /\ UNCHANGED <<graph_rows, graph_row, nodes_map, node_records, segments,
                   next_node_id, next_seg_id>>
    /\ UNCHANGED <<buildVars, encVars, vlvVars, szipVars, outVars>>

NextGraph == ProcessRow \/ ReturnGraph

SpecGraph == InitGraph /\ [][NextGraph]_vars

\* The coordinates of the rows that carry a line, in input order.
RECURSIVE LineCoords(_, _)
LineCoords(rows, i) ==
    IF i > Len(rows) THEN <<>>
    ELSE (IF Len(rows[i]) < 2 THEN <<>> ELSE rows[i]) \o LineCoords(rows, i + 1)

\* The distinct elements of a sequence, in order of first appearance.
RECURSIVE FirstAppearances(_, _)
FirstAppearances(s, seen) ==
    IF s = <<>> THEN <<>>
    ELSE IF Head(s) \in seen THEN FirstAppearances(Tail(s), seen)
    ELSE <<Head(s)>> \o FirstAppearances(Tail(s), seen \cup {Head(s)})

CountIn(s, x) == Cardinality({j \in 1 .. Len(s) : s[j] = x})

GraphNodeIdsInFirstAppearanceOrder ==
    LET pts == FirstAppearances(LineCoords(graph_rows, 1), {})
        nl  == graph_out.node_list
    IN  /\ Len(nl) = Len(pts)
        /\ \A k \in 1 .. Len(nl) :
              /\ nl[k].node_id = k - 1
              /\ <<nl[k].lon_deg, nl[k].lat_deg>> = pts[k]

GraphSegmentEndpointsExist ==
    LET ids == {graph_out.node_list[k].node_id :
                    k \in 1 .. Len(graph_out.node_list)}
    IN  \A j \in 1 .. Len(graph_out.segments) :
            /\ graph_out.segments[j].from_node_id \in ids
            /\ graph_out.segments[j].to_node_id \in ids

GraphSegmentIdsExactOnce ==
    \A k \in 1 .. Len(graph_out.node_list) :
        \A j \in 1 .. Len(graph_out.segments) :
            LET n   == graph_out.node_list[k]
                seg == graph_out.segments[j]
            IN  CountIn(n.segment_ids, seg.seg_id) =
                    (IF n.node_id \in {seg.from_node_id, seg.to_node_id}
                     THEN 1 ELSE 0)

\* C11: after the routing graph is built from any sequence of line-strings,
\* node ids are 0..N-1 in first-appearance order with one node per distinct
\* (lon, lat); every segment's endpoints are existing nodes; and a node's
\* segment_ids holds a segment id exactly when the node is an endpoint of
\* that segment, each such id once.
C11_GraphWellFormed ==
    graph_pc = "done" =>
        /\ GraphNodeIdsInFirstAppearanceOrder
        /\ GraphSegmentEndpointsExist
        /\ GraphSegmentIdsExactOnce

\* C11, the part the code keeps: ids in first-appearance order, endpoints
\* exist, and segment_ids holds an id if and only if the node is an endpoint.
C11_GraphWithoutMultiplicity ==
    graph_pc = "done" =>
        /\ GraphNodeIdsInFirstAppearanceOrder
        /\ GraphSegmentEndpointsExist
        /\ \A k \in 1 .. Len(graph_out.node_list) :
              \A j \in 1 .. Len(graph_out.segments) :
                 LET n   == graph_out.node_list[k]
                     seg == graph_out.segments[j]
                 IN  (CountIn(n.segment_ids, seg.seg_id) > 0) <=>
                        (n.node_id \in {seg.from_node_id, seg.to_node_id})

----------------------------------------------------------------------------
(* CARTOTOP.SDL and the disc image *)

\* The steps of build() that follow the write of CARTOTOP.SDL.
AfterCartotop == {"control", "iso", "move", "done"}

\* C12: CARTOTOP.SDL is written exactly once per build, after the last
\* region file; its entry_count is the total number of parcels written, its
\* entries are those of the topology vector in order, and its leading
\* rectangle is the minimum bounding rectangle of the entries' rectangles.
C12_CartotopIndexesEveryParcel ==
    /\ [](/\ cartotop.writes <= 1
          /\ (pc \in AfterCartotop => cartotop.writes = 1)
          /\ (cartotop.writes = 1 =>
                /\ cartotop.entry_count = Len(ExpectedTopology)
                /\ Len(cartotop.records) = cartotop.entry_count
                /\ \A k \in 1 .. cartotop.entry_count :
                      LET r == cartotop.records[k]
                          x == ExpectedTopology[k]
                      IN  /\ r = CartotopRecord(topology_entries[k])
                          /\ r.db_id = x[1]
                          /\ r.parcel_id = x[3]
                          /\ r.layer_type = x[4]
                          /\ r.rect = <<x[5][3], x[5][1], x[5][4], x[5][2]>>
                /\ \A k \in 1 .. cartotop.entry_count :
                      LET r == cartotop.records[k].rect
                      IN  /\ cartotop.rect[1] <= r[1]
                          /\ cartotop.rect[2] <= r[2]
                          /\ cartotop.rect[3] >= r[3]
                          /\ cartotop.rect[4] >= r[4]
                /\ \A c \in 1 .. 4 :
                      \E k \in 1 .. cartotop.entry_count :
                          cartotop.records[k].rect[c] = cartotop.rect[c]))
    /\ [][cartotop' # cartotop =>
             pc = "cartotop" /\ region_idx > Len(regions)]_vars
    /\ [][files' # files => cartotop.writes = 0]_vars

\* C12 witness: a build of two regions with different rectangles is done;
\* the index holds the parcels of both and its rectangle is wider than the
\* first entry's.
C12_Witness ==
    /\ pc = "done"
    /\ cartotop.writes = 1
    /\ Len(regions) = 2
    /\ cartotop.entry_count =
          Len(ExpectedEntries(1)) + Len(ExpectedEntries(2))
    /\ cartotop.entry_count >= 6
    /\ cartotop.rect # cartotop.records[1].rect

\* C13: out_iso changes only in the last step of build(), the move of the
\* completed image from the temporary path; a build that fails in any phase
\* leaves out_iso as it was.
C13_OutIsoOnlyMovedLast ==
    /\ [](iso_paths["out_iso"] # "partial")
    /\ [][iso_paths'["out_iso"] # iso_paths["out_iso"] =>
             /\ pc = "move" /\ pc' = "done"
             /\ iso_paths["sdal_tmp.iso"] = "image"
             /\ iso_paths'["out_iso"] = "image"]_vars
    /\ [][pc' = "failed" => iso_paths'["out_iso"] = iso_paths["out_iso"]]_vars

\* C13 witness: the image writer failed part-way; an earlier image is
\* still at out_iso.
C13_Witness ==
    /\ pc = "failed"
    /\ iso_paths["sdal_tmp.iso"] = "partial"
    /\ iso_paths["out_iso"] = "old"

----------------------------------------------------------------------------
(* The routing parcel payload *)

\* The payload offset at which piece i of a layout starts.
PieceStart(L, i) == SumSeq([j \in 1 .. (i - 1) |-> L[j].len])

\* A block descriptor with the given block id starts at payload offset off.
DescriptorAt(L, off, blk_id) ==
    \E i \in 1 .. Len(L) :
        PieceStart(L, i) = off /\ L[i].name = "BlkDesc" /\ L[i].blk_id = blk_id

\* C14: the routing payload is a 128-byte SptlPclHdr, a 32-byte
\* RoutingParcelHeader0, the 16-byte BlockOffsetArray at payload offset 160,
\* then the NodesBlock and the SegmentsBlock; the array's first offset, added
\* to the array's start, is where the NodesBlock descriptor (0x0100) is, and
\* the second where the SegmentsBlock descriptor (0x0200) is, empty lists
\* included.
C14_RoutingPayloadLayout ==
    enc_call.fn = "encode_routing_parcel" =>
        LET L == enc_result.parcels[1].sections
        IN  /\ enc_result.status = "ok"
            /\ L[1].name = "SptlPclHdr" /\ L[1].len = 128
            /\ L[2].name = "RoutingParcelHeader0" /\ L[2].len = 32
            /\ L[3].name = "BlockOffsetArray" /\ L[3].len = 16
            /\ PieceStart(L, 3) = 160
            /\ DescriptorAt(L, PieceStart(L, 3) + L[3].offsets[1], 256)
            /\ DescriptorAt(L, PieceStart(L, 3) + L[3].offsets[2], 512)

\* C14 with the header sizes of the code and for the non-empty graph: the
\* array is at the end of the two headers and its offsets lead to the two
\* descriptors.
C14_OffsetsLeadToDescriptors ==
    enc_call.fn = "encode_routing_parcel" /\ enc_call.graph.seg_count > 0 =>
        LET L == enc_result.parcels[1].sections
        IN  /\ enc_result.status = "ok"
            /\ PieceStart(L, 3) = L[1].len + L[2].len
            /\ L[3].name = "BlockOffsetArray" /\ L[3].len = 16
            /\ DescriptorAt(L, PieceStart(L, 3) + L[3].offsets[1], 256)
            /\ DescriptorAt(L, PieceStart(L, 3) + L[3].offsets[2], 512)
            /\ enc_result.parcels[1].body_len
                   = PieceStart(L, Len(L) + 1)

----------------------------------------------------------------------------
(* The parcel header fields *)

\* C17: a parcel-encoder call with pid # 0 emits a header whose 32-bit
\* ParcelID is pid verbatim; only pid = 0 has the ParcelID built from
\* offset_units, size_index and the two flags.
C17_ParcelIdIsPidVerbatim ==
    enc_call.fn = "encode_bytes" /\ enc_result.status = "ok" =>
        LET id == enc_result.parcels[1].header.parcelid
        IN  IF enc_call.pid # 0
            THEN id.top = 0 /\ id.units = enc_call.pid
            ELSE id.top = enc_call.size_index
                 /\ id.units = enc_call.offset_units

\* C17 as the code has it: the ParcelID is built from offset_units and
\* size_index whatever pid is; pid only supplies the parcel descriptor.
C17_ParcelIdFromOffsetUnits ==
    enc_call.fn = "encode_bytes" /\ enc_result.status = "ok" =>
        LET h == enc_result.parcels[1].header
        IN  /\ h.parcelid.top = enc_call.size_index
            /\ h.parcelid.units = enc_call.offset_units
            /\ h.usParcelDesc = enc_call.pid

\* C18: for a payload of L >= 0 bytes the 16-bit uncompressed-size field of
\* the header is min(20 + L, 0xFFFF).
C18_UncompSizeCountsHeaderAndSaturates ==
    enc_call.fn = "encode_bytes" /\ enc_result.status = "ok" =>
        enc_result.parcels[1].header.usCmpDataUncompSize
            = Min(PCL_HEADER_SIZE + enc_call.payload_len, 65535)

\* C18 as the code has it: the field is the payload length modulo 2^16.
C18_UncompSizeIsPayloadLenMod65536 ==
    enc_call.fn = "encode_bytes" /\ enc_result.status = "ok" =>
        enc_result.parcels[1].header.usCmpDataUncompSize
            = enc_call.payload_len % 65536

----------------------------------------------------------------------------
(* INIT.SDL *)

\* The first four bytes of a file that starts with a parcel header: the
\* big-endian ParcelID.
FirstFourBytes(f) ==
    LET id == f[1].hdr.parcelid
    IN  <<id.top, id.units \div 65536, (id.units \div 256) % 256,
          id.units % 256>>

\* The runs of a file that hold the byte at offset off.
RunsHolding(f, off) ==
    {i \in 1 .. Len(f) : RunStart(f, i) <= off /\ off < RunStart(f, i) + f[i].len}

\* C15: in OEM mode INIT.SDL begins with the bytes 53 44 41 4C, and the four
\* bytes at 0x0C are a checksum word (the little-endian IEEE CRC32 of the
\* bytes from 0x10 to 0x12048), not part of a parcel header.
C15_OemInitMagicAndCrc ==
    enc_call.fn = "write_init_sdl" /\ enc_call.format_mode = "OEM" =>
        /\ FirstFourBytes(enc_result.file) = <<83, 68, 65, 76>>
        /\ \A i \in RunsHolding(enc_result.file, 12) :
              enc_result.file[i].kind # "hdr"

\* The index of the k-th parcel header of a file.
NthHdr(f, k) == HdrSeq(f)[k]

\* C16: the standard INIT.SDL holds GLB_MEDIA_HEADER, LOCALE and SYMBOL in
\* that order, each padded to the unit; the locale pointer of the
\* GLB_MEDIA_HEADER payload is the offset_units at which LOCALE is written,
\* and the compress-info pointer is the offset_units at which a parcel is
\* written after LOCALE, whatever the size of the locale table.
C16_InitPointersFindParcels ==
    enc_call.fn = "write_init_sdl" =>
        LET f == enc_result.file
            g == enc_result.payload_header
        IN  /\ Len(HdrSeq(f)) = 3
            /\ f[NthHdr(f, 1)].hdr.usParcelDesc = PIDS.SDAL.GLB_MEDIA_HEADER
            /\ f[NthHdr(f, 2)].hdr.usParcelDesc = PIDS.SDAL.LOCALE
            /\ f[NthHdr(f, 3)].hdr.usParcelDesc = PIDS.SDAL.SYMBOL
            /\ \A k \in 1 .. 3 : RunStart(f, NthHdr(f, k)) % unit_size = 0
            /\ FileSize(f) % unit_size = 0
            /\ RunStart(f, NthHdr(f, 2)) = g.offset_locale * unit_size
            /\ decode_parcelid(f[NthHdr(f, 2)].hdr) = g.offset_locale
            /\ \E k \in 1 .. 3 :
                  /\ RunStart(f, NthHdr(f, k)) = g.offset_compress * unit_size
                  /\ RunStart(f, NthHdr(f, k)) > RunStart(f, NthHdr(f, 2))

\* C16 without the compress-info pointer: three unit-padded parcels in
\* order, and the locale pointer finds LOCALE.
C16_LocalePointerFindsLocale ==
    enc_call.fn = "write_init_sdl" =>
        LET f == enc_result.file
            g == enc_result.payload_header
        IN  /\ Len(HdrSeq(f)) = 3
            /\ f[NthHdr(f, 1)].hdr.usParcelDesc = PIDS.SDAL.GLB_MEDIA_HEADER
            /\ f[NthHdr(f, 2)].hdr.usParcelDesc = PIDS.SDAL.LOCALE
            /\ f[NthHdr(f, 3)].hdr.usParcelDesc = PIDS.SDAL.SYMBOL
            /\ \A k \in 1 .. 3 : RunStart(f, NthHdr(f, k)) % unit_size = 0
            /\ FileSize(f) % unit_size = 0
            /\ RunStart(f, NthHdr(f, 2)) = g.offset_locale * unit_size
            /\ decode_parcelid(f[NthHdr(f, 2)].hdr) = g.offset_locale

----------------------------------------------------------------------------
(* main.py build(), steps 2 to 5: POINAMES.SDL and KDTREE.SDL.  A POI is    *)
(* [lon, lat, name_len] with whole degrees.                                 *)

NTU_PER_DEG == 100000

\* deg_to_ntu for whole degrees (no clamping occurs below 2^31).
deg_to_ntu(deg) == deg * NTU_PER_DEG

\* _IDXPCL_STRUCT = ">H H I I I I H H H H": usIndexID, usIndexType,
\* ulIndexOffset, ulIndexLength, min_lat, min_lon and four u16; packing a
\* negative value into an unsigned field raises struct.error.
IDXPCL_STRUCT_SIZE == 2 + 2 + 4 + 4 + 4 + 4 + 2 + 2 + 2 + 2

encode_kdtree_idx_header(kd_data_len, min_lat, max_lat, min_lon, max_lon) ==
    IF min_lat < 0 \/ min_lon < 0 \/ kd_data_len < 0
    THEN [status |-> "struct.error"]
    ELSE [status |-> "ok", len |-> IDXPCL_STRUCT_SIZE,
          usIndexID |-> 1, usIndexType |-> 1, ulIndexOffset |-> 0,
          ulIndexLength |-> kd_data_len, min_lat |-> min_lat,
          min_lon |-> min_lon]

\* serialize_kdtree: a u32 count, then <u32 idx><i32 x><i32 y> per point.
serialize_kdtree(poi_coords) == 4 + 12 * Len(poi_coords)

\* build(), step 2.5: kd_payload as its pieces.
KdPayload(pois) ==
    IF pois = <<>> THEN [status |-> "ok", pieces |-> <<>>]
    ELSE LET kd_data == serialize_kdtree(pois)
             lats    == {pois[i].lat : i \in 1 .. Len(pois)}
             lons    == {pois[i].lon : i \in 1 .. Len(pois)}
             kd_header ==
                 encode_kdtree_idx_header(kd_data,
                     deg_to_ntu(MinOf(lats)), deg_to_ntu(MaxOf(lats)),
                     deg_to_ntu(MinOf(lons)), deg_to_ntu(MaxOf(lons)))
         IN  IF kd_header.status # "ok"
             THEN [status |-> kd_header.status, pieces |-> <<>>]
             ELSE [status |-> "ok",
                   pieces |-> <<[name |-> "IDxPclHdr", len |-> kd_header.len,
                                 fields |-> kd_header],
                                [name |-> "KdData", len |-> kd_data,
                                 fields |-> [count |-> Len(pois)]]>>]

\* all_poi_names as runs of strings.
PoiNames(pois) == [i \in 1 .. Len(pois) |-> [n |-> 1, len |-> pois[i].name_len]]

\* build(), steps 2 to 5, for the two files: an exception of step 2.5
\* ends the build before either is written.
WritePoi(pois, m) ==
    LET kd == KdPayload(pois)
    IN  IF kd.status # "ok"
        THEN [status |-> kd.status, poinames |-> <<>>, kdtree |-> <<>>,
              kd_pieces |-> <<>>]
        ELSE [status |-> "ok",
              poinames |->
                  Returned(encode_strings(PIDS[m].POI_NAME, PoiNames(pois),
                                          NO_COMPRESSION, 0),
                           <<"strings">>, Len(pois)).parcels,
              kdtree |->
                  Returned(encode_bytes(PIDS[m].KDTREE,
                               SumSeq([i \in 1 .. Len(kd.pieces) |->
                                          kd.pieces[i].len]),
                               0, 0, 0, NO_COMPRESSION, 0, 0, FALSE, FALSE),
                           <<"kd_payload">>, Len(pois)).parcels,
              kd_pieces |-> kd.pieces]

MaxPois == 3
PoiValues == [lon : {-84, 33}, lat : {-34, 42}, name_len : {0, 5}]
PoiLists == UNION {[1 .. n -> PoiValues] : n \in 0 .. MaxPois}

InitPoi == InitEnc

WritePoiFiles ==
    /\ pc = "idle"
    /\ enc_call.fn = "none"
    /\ \E pois \in PoiLists, m \in {"OEM", "SDAL"} :
          /\ enc_call' = [fn |-> "build_poi", pois |-> pois, mode |-> m]
          /\ enc_result' = WritePoi(pois, m)
    /\ UNCHANGED <<buildVars, vlvVars, szipVars, extVars>>

NextPoi == WritePoiFiles

SpecPoi == InitPoi /\ [][NextPoi]_vars

\* C19: with zero POIs POINAMES.SDL is exactly one parcel of 20 bytes, and
\* KDTREE.SDL is exactly one parcel whose payload is the 32-byte IDxPclHdr
\* with length 0 and all-zero bounds.
C19_ZeroPoiFiles ==
    enc_call.fn = "build_poi" /\ enc_call.pois = <<>> =>
        /\ enc_result.status = "ok"
        /\ Len(enc_result.poinames) = 1
        /\ enc_result.poinames[1].len = 20
        /\ Len(enc_result.kdtree) = 1
        /\ enc_result.kdtree[1].body_len = 32
        /\ Len(enc_result.kd_pieces) = 1
        /\ enc_result.kd_pieces[1].name = "IDxPclHdr"
        /\ enc_result.kd_pieces[1].fields.ulIndexLength = 0
        /\ enc_result.kd_pieces[1].fields.min_lat = 0
        /\ enc_result.kd_pieces[1].fields.min_lon = 0

\* C19 as the code has it: each of the two files is one parcel of 20 bytes
\* with an empty payload.
C19_ZeroPoiFilesAreBareHeaders ==
    enc_call.fn = "build_poi" /\ enc_call.pois = <<>> =>
        /\ enc_result.status = "ok"
        /\ Len(enc_result.poinames) = 1
        /\ enc_result.poinames[1].len = 20
        /\ Len(enc_result.kdtree) = 1
        /\ enc_result.kdtree[1].len = 20
        /\ enc_result.kd_pieces = <<>>

\* C20: for N >= 1 POIs, negative latitudes and longitudes included, the
\* KDTREE payload is a 32-byte IDxPclHdr followed by exactly 4 + 12 * N
\* bytes, and the header's length field is 4 + 12 * N.
C20_KdTreePayloadLayout ==
    enc_call.fn = "build_poi" /\ enc_call.pois # <<>> =>
        LET N == Len(enc_call.pois)
        IN  /\ enc_result.status = "ok"
            /\ Len(enc_result.kdtree) = 1
            /\ Len(enc_result.kd_pieces) = 2
            /\ enc_result.kd_pieces[1].name = "IDxPclHdr"
            /\ enc_result.kd_pieces[1].len = 32
            /\ enc_result.kd_pieces[2].len = 4 + 12 * N
            /\ enc_result.kdtree[1].body_len = 32 + 4 + 12 * N
            /\ enc_result.kd_pieces[1].fields.ulIndexLength = 4 + 12 * N

\* C20 as the code has it: when no POI has a negative minimum coordinate, the
\* header is followed by exactly 4 + 12 * N bytes and its length field says
\* so; the header itself is 28 bytes.
C20_KdDataLengthAfterHeader ==
    (/\ enc_call.fn = "build_poi" /\ enc_call.pois # <<>>
     /\ \A i \in 1 .. Len(enc_call.pois) :
           enc_call.pois[i].lat >= 0 /\ enc_call.pois[i].lon >= 0) =>
        LET N == Len(enc_call.pois)
        IN  /\ enc_result.status = "ok"
            /\ Len(enc_result.kdtree) = 1
            /\ enc_result.kd_pieces[1].name = "IDxPclHdr"
            /\ enc_result.kd_pieces[1].len = IDXPCL_STRUCT_SIZE
            /\ enc_result.kd_pieces[2].len = 4 + 12 * N
            /\ enc_result.kdtree[1].body_len
                   = IDXPCL_STRUCT_SIZE + 4 + 12 * N
            /\ enc_result.kd_pieces[1].fields.ulIndexLength = 4 + 12 * N

----------------------------------------------------------------------------
(* encoder.py: encode_cartography with the coordinates of its records.  A   *)
(* coordinate is <<lon, lat>> in units of 1/10000 degree; a record is       *)
(* [id, coords].                                                            *)

\* _ntu_from_deg: int(round(deg * NTU_PER_DEG)), for a value given in
\* 1/10000 degree (the 32-bit clipping is out of reach of such values).
ntu_from_deg(d4) == d4 * (NTU_PER_DEG \div 10000)

\* The rect_ntu argument left out.
NoRect == <<>>

\* encode_cartography: the fields of the payload, in the order written.
CartographyPayload(records, rect_ntu) ==
    [bounds |-> IF rect_ntu = NoRect THEN <<0, 0, 0, 0>>
                ELSE <<rect_ntu[3], rect_ntu[1], rect_ntu[4], rect_ntu[2]>>,
     record_count |-> Len(records),
     records |-> [i \in 1 .. Len(records) |->
                    [way_id |-> records[i].id,
                     coord_count |-> Len(records[i].coords),
                     coords |-> [k \in 1 .. Len(records[i].coords) |->
                                   <<ntu_from_deg(records[i].coords[k][1]),
                                     ntu_from_deg(records[i].coords[k][2])>>]]],
     len |-> 16 + 2 + SumSeq([i \in 1 .. Len(records) |->
                                 4 + 2 + 8 * Len(records[i].coords)])]

\* The records as [id, n], the form the length model of the encoder takes.
RecordLengths(records) ==
    [i \in 1 .. Len(records) |->
        [id |-> records[i].id, n |-> Len(records[i].coords)]]

\* build(): region_rect_ntu = (min_lat, max_lat, min_lon, max_lon) of
\* roads_df.total_bounds, through deg_to_ntu.
TotalBoundsNtu(records) ==
    LET pts == UNION {{records[i].coords[k] : k \in 1 .. Len(records[i].coords)} :
                         i \in 1 .. Len(records)}
    IN  <<ntu_from_deg(MinOf({p[2] : p \in pts})),
          ntu_from_deg(MaxOf({p[2] : p \in pts})),
          ntu_from_deg(MinOf({p[1] : p \in pts})),
          ntu_from_deg(MaxOf({p[1] : p \in pts}))>>

MaxCartoRecords == 2
MaxCartoCoords == 2
CartoPoints == {<<20000, 480000>>, <<20001, 480001>>, <<-841234, -339000>>}
\* Polylines of distinct points.
CartoCoordLists ==
    UNION {{cs \in [1 .. n -> CartoPoints] :
               \A i, j \in 1 .. n : i # j => cs[i] # cs[j]} :
              n \in 1 .. MaxCartoCoords}
CartoRecordLists ==
    UNION {{[i \in 1 .. n |-> [id |-> 41 + i, coords |-> cs[i]]] :
               cs \in [1 .. n -> CartoCoordLists]} : n \in 1 .. MaxCartoRecords}

\* The rectangles a call is given: none, the bounds of the records (build()
\* with the whole region in one chunk), or the bounds of a region that holds
\* further roads (build() with the region split into several chunks).
CartoRects(records) ==
    {NoRect, TotalBoundsNtu(records),
     TotalBoundsNtu(records \o <<[id |-> 1, coords |-> <<<<500000, 600000>>>>]>>)}

InitCarto == InitEnc

CallEncodeCartography ==
    /\ pc = "idle"
    /\ enc_call.fn = "none"
    /\ \E records \in CartoRecordLists :
          \E rect_ntu \in CartoRects(records) :
             /\ enc_call' = [fn |-> "encode_cartography", records |-> records,
                             rect_ntu |-> rect_ntu]
             /\ enc_result' =
                    Returned(encode_cartography(PIDS.OEM.CARTO,
                                 RecordLengths(records), 0,
                                 IF rect_ntu = NoRect THEN <<0, 0, 0, 0>>
                                 ELSE rect_ntu, NO_COMPRESSION),
                             CartographyPayload(records, rect_ntu),
                             Len(records))
    /\ UNCHANGED <<buildVars, vlvVars, szipVars, extVars>>

NextCarto == CallEncodeCartography

SpecCarto == InitCarto /\ [][NextCarto]_vars

\* The NTU coordinates carried by a cartography payload.
CarriedCoords(p) ==
    UNION {{p.records[i].coords[k] : k \in 1 .. p.records[i].coord_count} :
              i \in 1 .. p.record_count}

\* The fields after the bounds are as the claim lays them out.
CartoRecordsAsGiven ==
    LET p == enc_result.parcels[1].sections
    IN  /\ p.record_count = Len(enc_call.records)
        /\ Len(p.records) = p.record_count
        /\ \A i \in 1 .. p.record_count :
              /\ p.records[i].way_id = enc_call.records[i].id
              /\ p.records[i].coord_count = Len(enc_call.records[i].coords)
              /\ \A k \in 1 .. p.records[i].coord_count :
                    p.records[i].coords[k] =
                        <<enc_call.records[i].coords[k][1] * 10,
                          enc_call.records[i].coords[k][2] * 10>>
        /\ enc_result.parcels[1].body_len = p.len

\* C21: a cartography payload is four i32 bounds (min_lon, min_lat, max_lon,
\* max_lat), the u16 record count and the records (u32 way_id, u16
\* coord_count, the coordinate pairs in NTU), and the bounds are the minimum
\* bounding rectangle of the coordinates the parcel carries, also when the
\* region has several parcels or no rectangle is passed.
C21_CartoBoundsAreRecordsMbr ==
    enc_call.fn = "encode_cartography" =>
        LET p   == enc_result.parcels[1].sections
            pts == CarriedCoords(p)
        IN  /\ enc_result.status = "ok"
            /\ CartoRecordsAsGiven
            /\ p.bounds = <<MinOf({c[1] : c \in pts}), MinOf({c[2] : c \in pts}),
                            MaxOf({c[1] : c \in pts}), MaxOf({c[2] : c \in pts})>>

\* C21 for a call that is given the bounds of exactly its records.
C21_CartoBoundsAreTheGivenRect ==
    enc_call.fn = "encode_cartography"
       /\ enc_call.rect_ntu = TotalBoundsNtu(enc_call.records) =>
        LET p   == enc_result.parcels[1].sections
            pts == CarriedCoords(p)
        IN  /\ enc_result.status = "ok"
            /\ CartoRecordsAsGiven
            /\ p.bounds = <<MinOf({c[1] : c \in pts}), MinOf({c[2] : c \in pts}),
                            MaxOf({c[1] : c \in pts}), MaxOf({c[2] : c \in pts})>>

----------------------------------------------------------------------------
(* main.py: write_region_sdl.  Names are strings of at most 16 characters;  *)
(* a slot holds a name, or "" when it is all zero bytes.                    *)

REGION_LABEL_MAXLEN == 14
LANG_FIELD_MAXLEN == 30
REGION_TABLE_ENTRY_SIZE == 16
OEM_HEADER_SIZE == 4 + 12

\* translations.countries: native name -> language -> name.  CYPRUS has a
\* DAN and a UKE name, MALTA a UKE name only, GEORGIA no entry.
countries ==
    [c \in {"CYPRUS", "MALTA"} |->
        IF c = "CYPRUS" THEN [l \in {"DAN", "UKE"} |->
                                IF l = "DAN" THEN "CYPERN" ELSE "CYPRUS (UK)"]
        ELSE [l \in {"UKE"} |-> "MALTA (UK)"]]

\* extract_country(slug)
extract_country(slug) ==
    CASE slug = "europe/cyprus" -> "CYPRUS"
      [] slug = "europe/malta" -> "MALTA"
      [] OTHER -> "GEORGIA"

\* countries_dict.get(native, {}).get(lang, ....get("UKE", native))
TranslatedName(native, lang) ==
    IF native \notin DOMAIN countries THEN native
    ELSE IF lang \in DOMAIN countries[native] THEN countries[native][lang]
    ELSE IF "UKE" \in DOMAIN countries[native] THEN countries[native]["UKE"]
    ELSE native

build_region_translation_table(region_slugs, supp_langs) ==
    [r \in 1 .. Len(region_slugs) |->
        <<extract_country(region_slugs[r])>>
        \o [j \in 1 .. Len(supp_langs) |->
               TranslatedName(extract_country(region_slugs[r]), supp_langs[j])]]

\* The slots of one row: its names, then 10 - len(row) zero slots.
RegionRowSlots(row) ==
    row \o [k \in 1 .. (10 - Len(row)) |-> ""]

\* write_region_sdl: the 16-byte slots that follow the 62 bytes of header,
\* label and language fields, and the length of the file.
write_region_sdl(region_slugs, supp_langs) ==
    LET table == build_region_translation_table(region_slugs, supp_langs)
        slots == Flatten([r \in 1 .. Len(table) |-> RegionRowSlots(table[r])])
        body  == OEM_HEADER_SIZE + (REGION_LABEL_MAXLEN + 1)
                    + (LANG_FIELD_MAXLEN + 1)
                    + REGION_TABLE_ENTRY_SIZE * Len(slots)
    IN  [status |-> "ok",
         table_start |-> OEM_HEADER_SIZE + (REGION_LABEL_MAXLEN + 1)
                            + (LANG_FIELD_MAXLEN + 1),
         slots |-> slots,
         len |-> IF body < 4096 THEN 4096 ELSE body]

MaxRegionRows == 26
MaxSuppLangs == 10
RegionCycle == <<"europe/cyprus", "europe/malta", "europe/georgia">>
LangCycle == <<"DAN", "UKE", "GER">>

\* The region lists and language lists of a call: n regions, k languages.
RegionSlugs(n) == [i \in 1 .. n |-> RegionCycle[((i - 1) % 3) + 1]]
SuppLangs(k, first) == [j \in 1 .. k |-> LangCycle[((j + first - 2) % 3) + 1]]

InitRegionSdl == InitEnc

CallWriteRegionSdl ==
    /\ pc = "idle"
    /\ enc_call.fn = "none"
    /\ \E n \in 1 .. MaxRegionRows, k \in 1 .. MaxSuppLangs, first \in 1 .. 3 :
          /\ enc_call' = [fn |-> "write_region_sdl",
                          region_slugs |-> RegionSlugs(n),
                          supp_langs |-> SuppLangs(k, first)]
          /\ enc_result' = write_region_sdl(RegionSlugs(n), SuppLangs(k, first))
    /\ UNCHANGED <<buildVars, vlvVars, szipVars, extVars>>

NextRegionSdl == CallWriteRegionSdl

SpecRegionSdl == InitRegionSdl /\ [][NextRegionSdl]_vars

\* The slot that starts at byte b of REGION.SDL: "" when the byte lies in
\* the zero fill behind the table.
SlotAtByte(f, b) ==
    LET k == ((b - f.table_start) \div REGION_TABLE_ENTRY_SIZE) + 1
    IN  IF k <= Len(f.slots) THEN f.slots[k] ELSE ""

\* Region r (from 0) has its ten slots at byte 62 + 160 * r: native name,
\* one name per language with the fall-back order, then zero slots.
RegionSlotsInPlace(f, r) ==
    LET native == extract_country(enc_call.region_slugs[r + 1])
        langs  == enc_call.supp_langs
    IN  /\ 62 + 160 * r + 160 <= f.len
        /\ SlotAtByte(f, 62 + 160 * r) = native
        /\ \A j \in 1 .. 9 :
              SlotAtByte(f, 62 + 160 * r + 16 * j) =
                 IF j <= Len(langs) THEN TranslatedName(native, langs[j])
                 ELSE ""

\* C22: for any regions and any supported languages REGION.SDL is exactly
\* 4096 bytes long, and each region r has exactly ten consecutive 16-byte
\* name slots at byte 62 + 160 * r: the native name, one slot per language
\* (requested language, else UKE, else native), the rest zero.
C22_RegionSdlFixedSlots ==
    enc_call.fn = "write_region_sdl" =>
        /\ enc_result.len = 4096
        /\ Len(enc_result.slots) = 10 * Len(enc_call.region_slugs)
        /\ \A r \in 0 .. Len(enc_call.region_slugs) - 1 :
              RegionSlotsInPlace(enc_result, r)

\* C22 for at most 25 regions and at most 9 languages.
C22_RegionSdlSlotsWithinCapacity ==
    (/\ enc_call.fn = "write_region_sdl"
     /\ Len(enc_call.region_slugs) <= 25
     /\ Len(enc_call.supp_langs) <= 9) =>
        /\ enc_result.len = 4096
        /\ Len(enc_result.slots) = 10 * Len(enc_call.region_slugs)
        /\ \A r \in 0 .. Len(enc_call.region_slugs) - 1 :
              RegionSlotsInPlace(enc_result, r)

----------------------------------------------------------------------------
(* routing_format.py: the content of the node data block.  A block is the   *)
(* sequence of its fields [kind, value] in byte order; a Type-5 field holds *)
(* [sign, magnitude].  Node positions are whole degrees.                    *)

Field(kind, value) == [kind |-> kind, value |-> value]

Abs(x) == IF x < 0 THEN -x ELSE x

\* Python's >> on a signed integer: floor division by 2^s.
ShiftRight(x, s) ==
    LET p == 2 ^ s
    IN  IF x >= 0 THEN x \div p ELSE -((-x + p - 1) \div p)

\* encode_vlv_type5_signed: the sign bit and the saturated magnitude.
encode_vlv_type5_signed(value, bit_length) ==
    LET mag_bits == bit_length - 1
    IN  [sign |-> IF value < 0 THEN 1 ELSE 0,
         magnitude |-> IF Abs(value) >= 2 ^ mag_bits THEN 2 ^ mag_bits - 1
                       ELSE Abs(value)]

\* The NTU position the loop of encode_nodes_block holds before node i.
NodePrevNtu(nodes, rect_ntu, i) ==
    IF i = 1 THEN [lat |-> rect_ntu[1], lon |-> rect_ntu[3]]
    ELSE [lat |-> deg_to_ntu(nodes[i - 1].lat_deg),
          lon |-> deg_to_ntu(nodes[i - 1].lon_deg)]

\* encode_nodes_block, field by field: the descriptor, the Type-1 ids
\* written to data_buffer, then the bit stream that is appended after the
\* loop.  scale_shift is not read.
NodesBlock(nodes, rect_ntu, scale_shift) ==
    IF nodes = <<>> THEN <<>>
    ELSE <<Field("u16", 256), Field("u32", Len(nodes))>>
         \o [i \in 1 .. Len(nodes) |-> Field("type1", nodes[i].node_id)]
         \o Flatten([i \in 1 .. Len(nodes) |->
               LET prev == NodePrevNtu(nodes, rect_ntu, i)
                   delta_lat == deg_to_ntu(nodes[i].lat_deg) - prev.lat
                   delta_lon == deg_to_ntu(nodes[i].lon_deg) - prev.lon
               IN  <<Field("type5", encode_vlv_type5_signed(delta_lon, 19)),
                     Field("type5", encode_vlv_type5_signed(delta_lat, 19))>>])

\* The smallest s in 0 .. 15 with (max_delta >> s) <= 0xFFFFF, else 15.
choose_scale_shift_for_nodes(nodes) ==
    IF nodes = <<>> THEN 0
    ELSE LET lats == {deg_to_ntu(nodes[i].lat_deg) : i \in 1 .. Len(nodes)}
             lons == {deg_to_ntu(nodes[i].lon_deg) : i \in 1 .. Len(nodes)}
             max_delta == Max(MaxOf(lats) - MinOf(lats),
                              MaxOf(lons) - MinOf(lons))
             ok == {s \in 0 .. 15 : ShiftRight(max_delta, s) <= 1048575}
         IN  IF ok = {} THEN 15 ELSE MinOf(ok)

\* region_rect_ntu of build(): (min_lat, max_lat, min_lon, max_lon) of the
\* road vertices.
NodesRect(nodes) ==
    LET lats == {deg_to_ntu(nodes[i].lat_deg) : i \in 1 .. Len(nodes)}
        lons == {deg_to_ntu(nodes[i].lon_deg) : i \in 1 .. Len(nodes)}
    IN  <<MinOf(lats), MaxOf(lats), MinOf(lons), MaxOf(lons)>>

MaxNodes == 3
\* <<lat, lon>> in degrees.
NodePoints == {<<35, 33>>, <<35, 34>>, <<34, 33>>, <<37, 30>>,
               <<35, 36>>, <<46, 33>>}

\* Node lists as the graph builder returns them: ids 0, 1, ... in order,
\* one node per distinct point.
NodeLists ==
    UNION {{[i \in 1 .. n |-> NodeRecord(i - 1, p[i][1], p[i][2])] :
               p \in {q \in [1 .. n -> NodePoints] :
                         \A i, j \in 1 .. n : i # j => q[i] # q[j]}} :
           n \in 1 .. MaxNodes}

InitNodes == InitEnc

CallEncodeNodesBlock ==
    /\ pc = "idle"
    /\ enc_call.fn = "none"
    /\ \E nodes \in NodeLists :
          /\ enc_call' = [fn |-> "encode_nodes_block", nodes |-> nodes,
                          rect_ntu |-> NodesRect(nodes),
                          scale_shift |-> choose_scale_shift_for_nodes(nodes)]
          /\ enc_result' = [status |-> "ok",
                            fields |-> NodesBlock(nodes, NodesRect(nodes),
                                          choose_scale_shift_for_nodes(nodes))]
    /\ UNCHANGED <<buildVars, vlvVars, szipVars, extVars>>

NextNodes == CallEncodeNodesBlock

SpecNodes == InitNodes /\ [][NextNodes]_vars

\* delta of node i from the previous node (the rectangle corner for the
\* first), as <<delta_lon, delta_lat>> in NTU.
NodeDelta(i) ==
    LET prev == NodePrevNtu(enc_call.nodes, enc_call.rect_ntu, i)
    IN  <<deg_to_ntu(enc_call.nodes[i].lon_deg) - prev.lon,
          deg_to_ntu(enc_call.nodes[i].lat_deg) - prev.lat>>

Type5Of(x) == [sign |-> IF x < 0 THEN 1 ELSE 0, magnitude |-> Abs(x)]

\* The block as the layout describes it.
InterleavedNodesBlock ==
    <<Field("u16", 256), Field("u32", Len(enc_call.nodes)),
      Field("i32", enc_call.rect_ntu[1]), Field("i32", enc_call.rect_ntu[3])>>
    \o Flatten([i \in 1 .. Len(enc_call.nodes) |->
          <<Field("type1", enc_call.nodes[i].node_id),
            Field("type5", Type5Of(ShiftRight(NodeDelta(i)[1],
                                              enc_call.scale_shift))),
            Field("type5", Type5Of(ShiftRight(NodeDelta(i)[2],
                                              enc_call.scale_shift)))>>])

\* C23: the NodesBlock is the descriptor (0x0100, entry_count), the i32
\* anchor latitude and longitude, then per node in id order the Type-1
\* node_id immediately followed by the two Type-5 values
\* delta_lon >> scale_shift and delta_lat >> scale_shift.
C23_NodesBlockInterleaved ==
    enc_call.fn = "encode_nodes_block" =>
        enc_result.fields = InterleavedNodesBlock

\* C23 as the block is written: the descriptor, one Type-1 id per node in
\* id order, then per node the two 19-bit values of the unshifted deltas
\* (lon, then lat) with the magnitude capped at 2^18 - 1.
C23_NodesBlockIdsThenDeltas ==
    enc_call.fn = "encode_nodes_block" =>
        LET n == Len(enc_call.nodes)
            f == enc_result.fields
        IN  /\ Len(f) = 2 + 3 * n
            /\ f[1] = Field("u16", 256)
            /\ f[2] = Field("u32", n)
            /\ \A i \in 1 .. n :
                  /\ f[2 + i] = Field("type1", enc_call.nodes[i].node_id)
                  /\ \A c \in 1 .. 2 :
                        LET v == f[2 + n + 2 * (i - 1) + c].value
                            d == NodeDelta(i)[c]
                        IN  /\ v.sign = (IF d < 0 THEN 1 ELSE 0)
                            /\ v.magnitude = Min(Abs(d), 262143)

\* The Type-5 values of the block, in order.
StoredDeltas ==
    SelectSeq(enc_result.fields, LAMBDA f : f.kind = "type5")

SignedOf(v) == IF v.sign = 1 THEN -v.magnitude ELSE v.magnitude

\* The position a reader holds after node i: the rectangle corner plus the
\* stored deltas of nodes 1 .. i.
RECURSIVE ReaderNtu(_)
ReaderNtu(i) ==
    IF i = 0 THEN [lat |-> enc_call.rect_ntu[1], lon |-> enc_call.rect_ntu[3]]
    ELSE [lon |-> ReaderNtu(i - 1).lon + SignedOf(StoredDeltas[2 * i - 1].value),
          lat |-> ReaderNtu(i - 1).lat + SignedOf(StoredDeltas[2 * i].value)]

\* C24: a reader that starts at the rectangle's (min_lat, min_lon) corner
\* and accumulates the stored deltas in node order recovers the exact NTU
\* position of every node.
C24_ReaderRecoversNodes ==
    enc_call.fn = "encode_nodes_block" =>
        \A i \in 1 .. Len(enc_call.nodes) :
            /\ ReaderNtu(i).lat = deg_to_ntu(enc_call.nodes[i].lat_deg)
            /\ ReaderNtu(i).lon = deg_to_ntu(enc_call.nodes[i].lon_deg)

\* C24 when every delta is below 2^18 NTU in magnitude.
C24_ReaderRecoversNearNodes ==
    (/\ enc_call.fn = "encode_nodes_block"
     /\ \A i \in 1 .. Len(enc_call.nodes), c \in 1 .. 2 :
           Abs(NodeDelta(i)[c]) < 262144) =>
        \A i \in 1 .. Len(enc_call.nodes) :
            /\ ReaderNtu(i).lat = deg_to_ntu(enc_call.nodes[i].lat_deg)
            /\ ReaderNtu(i).lon = deg_to_ntu(enc_call.nodes[i].lon_deg)

----------------------------------------------------------------------------
(* szip_compressor.py: one iteration of the loop of lz77_tokenize, at any   *)
(* position of a byte string.                                               *)

\* lz77_step that advances by 1 after a match.
lz77_step_advance_one(data, current_pos) ==
    LET m == find_best_match(data, current_pos)
    IN  IF m[2] >= MIN_MATCH_LENGTH
        THEN [token |-> LZ77Token("MATCH", m[1], m[2], 0),
              current_pos |-> current_pos + 1]
        ELSE [token |-> LZ77Token("LITERAL", 0, 0, data[current_pos + 1]),
              current_pos |-> current_pos + 1]

lz77_step(data, current_pos) ==
    LET m == find_best_match(data, current_pos)
    IN  IF m[2] >= MIN_MATCH_LENGTH
        THEN [token |-> LZ77Token("MATCH", m[1], m[2], 0),
              current_pos |-> current_pos + m[2]]
        ELSE [token |-> LZ77Token("LITERAL", 0, 0, data[current_pos + 1]),
              current_pos |-> current_pos + 1]

\* 200 201 202, then groups (255, g \div 128, g % 128) in which no three
\* bytes repeat, then 200 201 202 again at position gap + 3.
FarRepeat(gap) ==
    [i \in 1 .. gap + 6 |->
        IF i <= 3 THEN 199 + i
        ELSE IF i > gap + 3 THEN 199 + i - (gap + 3)
        ELSE LET k == i - 4
             IN  CASE k % 3 = 0 -> 255
                   [] k % 3 = 1 -> (k \div 3) \div 128
                   [] OTHER     -> (k \div 3) % 128]

ZeroRun(n) == [i \in 1 .. n |-> 0]

\* <<data, current_pos>>: every position of the short strings; a string
\* with two equally long candidates; a run that reaches MAX_MATCH_LENGTH;
\* a repeat at distance WINDOW_SIZE and one at WINDOW_SIZE + 1.
MatchInputs ==
    {<<d, p>> : d \in SzipInputs \ {<<>>}, p \in 0 .. MaxSzipLen - 1}
    \cup {<<<<97, 98, 99, 97, 98, 99, 97, 98, 99>>, 6>>,
          <<ZeroRun(2 * MAX_MATCH_LENGTH + 130), MAX_MATCH_LENGTH + 126>>,
          <<FarRepeat(WINDOW_SIZE - 3), WINDOW_SIZE>>,
          <<FarRepeat(WINDOW_SIZE - 2), WINDOW_SIZE + 1>>}

InitMatch == InitEnc

CallLz77Step ==
    /\ pc = "idle"
    /\ enc_call.fn = "none"
    /\ \E in \in MatchInputs :
          /\ in[2] < Len(in[1])
          /\ enc_call' = [fn |-> "lz77_step", data |-> in[1],
                          current_pos |-> in[2]]
          /\ enc_result' = [status |-> "ok",
                            step |-> lz77_step(in[1], in[2])]
    /\ UNCHANGED <<buildVars, vlvVars, szipVars, extVars>>

NextMatch == CallLz77Step

SpecMatch == InitMatch /\ [][NextMatch]_vars

\* The length bytes that start o bytes back lie in the lookback window,
\* before the current position, and equal the bytes at the position.
IsWindowMatch(data, pos, o, length) ==
    /\ o \in 1 .. Min(pos, 32768)
    /\ length <= o
    /\ length <= Min(258, Len(data) - pos)
    /\ \A i \in 1 .. length : data[pos - o + i] = data[pos + i]

LongestWindowMatch(data, pos) ==
    MaxOf({length \in 0 .. Min(258, Len(data) - pos) :
              length = 0 \/ \E o \in 1 .. Min(pos, 32768) :
                               IsWindowMatch(data, pos, o, length)})

C25_MatchCappedAt258 ==
    /\ enc_call.fn = "lz77_step"
    /\ Len(enc_call.data) - enc_call.current_pos > 258
    /\ enc_result.step.token = LZ77Token("MATCH", 258, 258, 0)

C25_MatchAtWindowEdge ==
    /\ enc_call.fn = "lz77_step"
    /\ enc_call.current_pos = 32768
    /\ enc_result.step.token = LZ77Token("MATCH", 32768, 3, 0)

C25_RepeatBeyondWindowIsLiteral ==
    /\ enc_call.fn = "lz77_step"
    /\ enc_call.current_pos = 32769
    /\ enc_result.step.token = LZ77Token("LITERAL", 0, 0, 200)

----------------------------------------------------------------------------
(* szip_compressor.py: lz77_tokenize, one loop iteration per step *)

LzInputs ==
    SzipInputs \cup {<<97, 98, 99, 97, 98, 99, 97, 98, 99>>, ZeroRun(40)}

InitLz ==
    /\ szip_in \in LzInputs
    /\ szip_pc = "lz77"
    /\ szip_tokens = <<>>
    /\ lz_pos = 0
    /\ szip_out = [status |-> "none"]
    /\ IdleEnc /\ IdleVlv /\ IdleExt /\ IdleBuild

\* while current_pos < data_len: one token is appended.
LzStep ==
    /\ szip_pc = "lz77"
    /\ lz_pos < Len(szip_in)
    /\ szip_tokens' = Append(szip_tokens, lz77_step(szip_in, lz_pos).token)
    /\ lz_pos' = lz77_step(szip_in, lz_pos).current_pos
    /\ UNCHANGED <<szip_in, szip_pc, szip_out, buildVars, encVars, vlvVars,
                   extVars>>

\* return tokens
LzReturn ==
    /\ szip_pc = "lz77"
    /\ lz_pos >= Len(szip_in)
    /\ szip_pc' = "returned"
    /\ UNCHANGED <<szip_in, szip_tokens, szip_out, lz_pos, buildVars, encVars,
                   vlvVars, extVars>>

NextLz == LzStep \/ LzReturn

\* The loop is the only thread of the tokenizer: it keeps running.
SpecLz == InitLz /\ [][NextLz]_vars /\ WF_vars(NextLz)

TokenLength(t) == IF t.type = "MATCH" THEN t.length ELSE 1

\* A reader's copy of a match, byte by byte from offset bytes back: byte i
\* of the copy is the byte offset places before it.
CopyBack(out, offset, n) ==
    out \o [i \in 1 .. n |-> out[Len(out) - offset + ((i - 1) % offset) + 1]]

\* The bytes produced by the first k tokens.
RECURSIVE Replay(_, _)
Replay(tokens, k) ==
    IF k = 0 THEN <<>>
    ELSE CHOOSE next \in
             {IF tokens[k].type = "LITERAL" THEN Append(out, tokens[k].value)
              ELSE CopyBack(out, tokens[k].offset, tokens[k].length) :
                  out \in {Replay(tokens, k - 1)}} : TRUE

Lossless(data, tokens) ==
    /\ \A k \in 1 .. Len(tokens) :
          tokens[k].type = "MATCH" =>
              /\ tokens[k].length \in 3 .. 258
              /\ tokens[k].offset \in 1 .. 32768
              /\ tokens[k].offset <=
                    SumSeq([j \in 1 .. k - 1 |-> TokenLength(tokens[j])])
    /\ SumSeq([k \in 1 .. Len(tokens) |-> TokenLength(tokens[k])]) = Len(data)
    /\ Replay(tokens, Len(tokens)) = data

\* C26: lz77_tokenize returns on every input, and the tokens it returns
\* are lossless: every Match has a length in 3 .. 258 and an offset in
\* 1 .. 32768 that does not exceed the bytes produced before it, the token
\* lengths sum to the input length and replaying the tokens gives the input.
C26_TokenizeTerminatesLossless ==
    /\ <>(szip_pc = "returned")
    /\ [](szip_pc = "returned" => Lossless(szip_in, szip_tokens))

\* Witness of C26: a returned token list with a literal and a match.
C26_ReturnedLiteralsAndMatch ==
    /\ szip_pc = "returned"
    /\ \E k \in 1 .. Len(szip_tokens) : szip_tokens[k].type = "MATCH"
    /\ \E k \in 1 .. Len(szip_tokens) : szip_tokens[k].type = "LITERAL"

----------------------------------------------------------------------------
(* szip_compressor.py: build_canonical_huffman_codes applied to a           *)
(* frequency map of the literal/end-of-block alphabet.                      *)

MaxFreq == 3
HuffSymbols == {0, 1, 2, EOD_CODE}
DeepSymbols == 17

\* Frequencies 1, 2, 4, ... on the symbols 0 .. DeepSymbols - 1: every
\* merge joins the lightest symbol left to the tree built so far, so the
\* optimal tree has depth DeepSymbols - 1.
DeepFrequencies == [s \in 0 .. DeepSymbols - 1 |-> 2 ^ s]

FrequencyMaps == [HuffSymbols -> 0 .. MaxFreq] \cup {DeepFrequencies}

InitHuff == InitEnc

CallBuildCanonicalHuffmanCodes ==
    /\ pc = "idle"
    /\ enc_call.fn = "none"
    /\ \E frequencies \in FrequencyMaps :
          /\ enc_call' = [fn |-> "build_canonical_huffman_codes",
                          frequencies |-> frequencies, max_symbols |-> 257]
          /\ enc_result' =
                [status |-> "ok",
                 code_map |->
                     build_canonical_huffman_codes(frequencies, 257).code_map]
    /\ UNCHANGED <<buildVars, vlvVars, szipVars, extVars>>

NextHuff == CallBuildCanonicalHuffmanCodes

SpecHuff == InitHuff /\ [][NextHuff]_vars

\* The first n bits of the code <<value, length>>, as a number.
CodePrefix(c, n) == c[1] \div (2 ^ (c[2] - n))

\* A code map whose codes have 1 to 15 bits, are prefix-free, and in which
\* a shorter code precedes every longer one lexicographically.
IsCanonicalPrefixCode(code_map) ==
    /\ \A x \in DOMAIN code_map :
          /\ code_map[x][2] \in 1 .. 15
          /\ code_map[x][1] \in 0 .. 2 ^ code_map[x][2] - 1
    /\ \A x, y \in DOMAIN code_map :
          (x # y /\ code_map[x][2] <= code_map[y][2]) =>
              CodePrefix(code_map[y], code_map[x][2]) # code_map[x][1]
    /\ \A x, y \in DOMAIN code_map :
          code_map[x][2] < code_map[y][2] =>
              code_map[x][1] < CodePrefix(code_map[y], code_map[x][2])

UsedSymbols(frequencies) == {x \in DOMAIN frequencies : frequencies[x] > 0}

\* C27: for every frequency map, one used symbol and trees deeper than 15
\* included, exactly the symbols of non-zero frequency get a code, every
\* code has 1 to 15 bits, the codes are prefix-free and shorter codes come
\* first lexicographically.
C27_CanonicalCodesForUsedSymbols ==
    enc_call.fn = "build_canonical_huffman_codes" =>
        /\ DOMAIN enc_result.code_map = UsedSymbols(enc_call.frequencies)
        /\ IsCanonicalPrefixCode(enc_result.code_map)

\* C27 for at least two used symbols and an optimal tree of depth 15 or
\* less.
C27_ShallowTreeCodes ==
    (/\ enc_call.fn = "build_canonical_huffman_codes"
     /\ Cardinality(UsedSymbols(enc_call.frequencies)) >= 2
     /\ \A x \in UsedSymbols(enc_call.frequencies) :
           build_initial_lengths(enc_call.frequencies, 257)[x] <= MAX_BITS) =>
        /\ DOMAIN enc_result.code_map = UsedSymbols(enc_call.frequencies)
        /\ IsCanonicalPrefixCode(enc_result.code_map)

----------------------------------------------------------------------------
(* The B-tree offset lists of build() against the cartography payload *)

\* encode_cartography: the byte of the payload at which record i begins,
\* after the four i32 bounds, the u16 count and the records before it (u32
\* way_id, u16 count and two i32 per vertex each).
RecordStartInPayload(records, i) ==
    4 * 4 + 2 + SumSeq([j \in 1 .. (i - 1) |-> 4 + 2 + records[j].n * (4 + 4)])

\* The builder after a cartography builder is the B-tree builder of the
\* same chunk, and its pairs point at the records of the chunk.
BtreePairedWithCarto(b) ==
    /\ b + 1 <= Len(parcel_builders)
    /\ parcel_builders[b + 1].kind = "btree"
    /\ Len(parcel_builders[b + 1].offsets) = Len(parcel_builders[b].records)
    /\ \A i \in 1 .. Len(parcel_builders[b].records) :
          parcel_builders[b + 1].offsets[i] =
              <<parcel_builders[b].records[i].id,
                RecordStartInPayload(parcel_builders[b].records, i)>>

\* Parcel b + 1 of the file is the B-tree parcel, and nothing but the
\* payload and the padding of parcel b lies between the two headers.
BtreeWrittenNextToCarto(b) ==
    LET f == AssembledFile
        h == HdrSeq(f)
    IN  /\ f[h[b]].hdr =
              Make(parcel_builders[b], decode_parcelid(f[h[b]].hdr), mode).header
        /\ f[h[b + 1]].hdr =
              Make(parcel_builders[b + 1], decode_parcelid(f[h[b + 1]].hdr),
                   mode).header
        /\ f[h[b] + 1].kind = "payload"
        /\ f[h[b] + 1].len =
              RecordStartInPayload(parcel_builders[b].records,
                                   Len(parcel_builders[b].records) + 1)
        /\ \A k \in h[b] + 2 .. h[b + 1] - 1 : f[k].kind = "zeros"

\* C28: every (way_id, off) pair of the B-tree offset list of a cartography
\* chunk gives the byte offset in the chunk's cartography payload at which
\* the record of that way begins, and the B-tree parcel is written
\* immediately after its cartography parcel.
C28_BtreeOffsetsPointAtRecords ==
    pc \in {"parcels", "regions", "cartotop", "control", "iso", "move",
            "done"} =>
        \A b \in 1 .. Len(parcel_builders) :
            parcel_builders[b].kind = "carto" =>
                /\ BtreePairedWithCarto(b)
                /\ (b + 1 <= WrittenCount => BtreeWrittenNextToCarto(b))

\* Witness of C28: a chunk of three records with offsets 18, 40 and 62
\* whose cartography and B-tree parcels are both in the file.
C28_ThreeRecordChunkWritten ==
    /\ pc = "parcels"
    /\ WrittenCount >= 2
    /\ parcel_builders[1].kind = "carto"
    /\ parcel_builders[2].offsets = <<<<1, 18>>, <<2, 40>>, <<3, 62>>>>

----------------------------------------------------------------------------
(* main.py build(), steps 2 and 4: the POI records, the POI offsets and     *)
(* POIGEOM.SDL.  A payload is the sequence of its pieces [name, len, v].    *)

Piece(name, len, v) == [name |-> name, len |-> len, v |-> v]

\* The POIs of all regions in load order.
AllPois(region_pois) == Flatten(region_pois)

\* len(struct.pack("<ii", ...))
POI_PAYLOAD_SIZE == 4 + 4

\* poi_offsets: (poi_index_counter, offset_acc), with
\* offset_acc += len(payload) + 6 after each POI.
PoiOffsets(region_pois) ==
    [i \in 1 .. Len(AllPois(region_pois)) |->
        <<i - 1, (i - 1) * (POI_PAYLOAD_SIZE + 6)>>]

\* poi_records: (poi_index_counter, payload).
PoiRecords(region_pois) ==
    [i \in 1 .. Len(AllPois(region_pois)) |->
        [index |-> i - 1, lat |-> AllPois(region_pois)[i].lat,
         lon |-> AllPois(region_pois)[i].lon]]

\* b"".join(struct.pack(">H", UNCOMPRESSED_FLAG) + rec[1] ...)
PoiGeomPayload(poi_records) ==
    Flatten([i \in 1 .. Len(poi_records) |->
                <<Piece("flag", 2, 0),
                  Piece("record", POI_PAYLOAD_SIZE, poi_records[i])>>])

\* The payload encode_btree builds: u32 count, then (u32 id, u32 off).
BtreePayload(offsets) ==
    <<Piece("count", 4, Len(offsets))>>
    \o [i \in 1 .. Len(offsets) |-> Piece("pair", 8, offsets[i])]

PiecesLen(pieces) == SumSeq([i \in 1 .. Len(pieces) |-> pieces[i].len])

\* The byte of the payload at which piece k begins.
PieceOffset(pieces, k) == SumSeq([i \in 1 .. (k - 1) |-> pieces[i].len])

\* encode_poi_index: encode_btree with the defaults region = 1 and
\* offset_units = None; the bytes returned are a parcel, header included.
encode_poi_index(pid, offsets, compress_type) ==
    LET p == encode_bytes(pid, PiecesLen(BtreePayload(offsets)), 1, 0, 0,
                          compress_type, 0, 0, FALSE, FALSE)
    IN  [status |-> p.status,
         bytes  |-> IF p.status # "ok" THEN <<>>
                    ELSE <<Piece("PclHdr", PCL_HEADER_SIZE, p.header)>>
                         \o BtreePayload(offsets)]

\* Step 4: POIGEOM.SDL as its two parcels, each [header, payload].
WritePoiGeom(region_pois, m) ==
    LET geom_payload   == PoiGeomPayload(PoiRecords(region_pois))
        poi_geom_blob  == encode_bytes(PIDS[m].POI_GEOM, PiecesLen(geom_payload),
                                       0, 0, 0, NO_COMPRESSION, 0, 0, FALSE,
                                       FALSE)
        poi_index_blob == encode_poi_index(PIDS[m].POI_INDEX,
                                           PoiOffsets(region_pois),
                                           NO_COMPRESSION)
        index_parcel   == encode_bytes(PIDS[m].POI_INDEX,
                                       PiecesLen(poi_index_blob.bytes),
                                       0, 0, 0, NO_COMPRESSION, 0, 0, FALSE,
                                       FALSE)
    IN  IF poi_geom_blob.status # "ok"
        THEN [status |-> poi_geom_blob.status, poi_offsets |-> <<>>,
              poigeom |-> <<>>]
        ELSE IF poi_index_blob.status # "ok"
        THEN [status |-> poi_index_blob.status, poi_offsets |-> <<>>,
              poigeom |-> <<>>]
        ELSE IF index_parcel.status # "ok"
        THEN [status |-> index_parcel.status, poi_offsets |-> <<>>,
              poigeom |-> <<>>]
        ELSE [status |-> "ok",
              poi_offsets |-> PoiOffsets(region_pois),
              poigeom |->
                  <<[header |-> poi_geom_blob.header, payload |-> geom_payload],
                    [header |-> index_parcel.header,
                     payload |-> poi_index_blob.bytes]>>]

\* The POIs loaded per region: one region, or two regions of at most one
\* POI each.
RegionPoiLists ==
    {<<p>> : p \in PoiLists}
    \cup {<<p, q>> : p \in {l \in PoiLists : Len(l) <= 1},
                     q \in {l \in PoiLists : Len(l) <= 1}}

InitPoiGeom == InitEnc

WritePoiGeomFile ==
    /\ pc = "idle"
    /\ enc_call.fn = "none"
    /\ \E region_pois \in RegionPoiLists, m \in {"OEM", "SDAL"} :
          /\ enc_call' = [fn |-> "build_poigeom", region_pois |-> region_pois,
                          mode |-> m]
          /\ enc_result' = WritePoiGeom(region_pois, m)
    /\ UNCHANGED <<buildVars, vlvVars, szipVars, extVars>>

NextPoiGeom == WritePoiGeomFile

SpecPoiGeom == InitPoiGeom /\ [][NextPoiGeom]_vars

\* The POI indices are 0 .. N - 1 in load order across the regions.
PoiIndicesDense ==
    LET all == AllPois(enc_call.region_pois)
        geom == enc_result.poigeom[1].payload
    IN  /\ Len(enc_result.poi_offsets) = Len(all)
        /\ \A i \in 1 .. Len(all) :
              /\ enc_result.poi_offsets[i][1] = i - 1
              /\ geom[2 * i].v = [index |-> i - 1, lat |-> all[i].lat,
                                  lon |-> all[i].lon]

\* The offset recorded for POI i is where its record (flag and
\* coordinates) begins in the POIGEOM payload.
PoiOffsetsPointAtRecords ==
    \A i \in 1 .. Len(enc_result.poi_offsets) :
        enc_result.poi_offsets[i][2] =
            PieceOffset(enc_result.poigeom[1].payload, 2 * i - 1)

\* The index is the second parcel of POIGEOM.SDL and its payload starts
\* with the u32 entry count.
PoiIndexParcelStartsWithCount ==
    /\ Len(enc_result.poigeom) = 2
    /\ enc_result.poigeom[2].payload[1] =
          Piece("count", 4, Len(enc_result.poi_offsets))

\* C29: POI indices are 0 .. N - 1 in load order across all regions, the
\* offset recorded for POI i is the offset of its record in the POIGEOM
\* payload, and the POI index is one parcel of POIGEOM.SDL whose payload
\* starts with the u32 entry count.
C29_PoiIndexMatchesGeometry ==
    enc_call.fn = "build_poigeom" =>
        /\ enc_result.status = "ok"
        /\ PoiIndicesDense
        /\ PoiOffsetsPointAtRecords
        /\ PoiIndexParcelStartsWithCount

\* C29 as the code has it: dense indices; offsets 14 * i while the records
\* lie at 10 * i; the index parcel's payload is itself a parcel, whose own
\* payload starts with the count.
C29_PoiIndexAsWritten ==
    enc_call.fn = "build_poigeom" =>
        /\ enc_result.status = "ok"
        /\ PoiIndicesDense
        /\ \A i \in 1 .. Len(enc_result.poi_offsets) :
              /\ enc_result.poi_offsets[i][2] = 14 * (i - 1)
              /\ PieceOffset(enc_result.poigeom[1].payload, 2 * i - 1)
                    = 10 * (i - 1)
        /\ Len(enc_result.poigeom) = 2
        /\ enc_result.poigeom[2].payload[1].name = "PclHdr"
        /\ enc_result.poigeom[2].payload[2] =
              Piece("count", 4, Len(enc_result.poi_offsets))

----------------------------------------------------------------------------
(* main.py: build_routing_graph_from_roads_df on geometries.  A geometry    *)
(* is [type, parts]: a LineString has one part, its coords (possibly        *)
(* empty); a MultiLineString has one or more parts of two or more vertices. *)

\* _iter_coords: the coords of a LineString, or those of all parts of a
\* MultiLineString one after the other.
iter_coords(geom) ==
    IF geom.type = "LineString" THEN geom.parts[1]
    ELSE IF geom.type = "MultiLineString" THEN Flatten(geom.parts)
    ELSE <<>>

MaxPartCoords == 3
MaxParts == 2
PartCoordLists == UNION {[1 .. n -> GraphPoints] : n \in 2 .. MaxPartCoords}

Geometries ==
    {[type |-> "LineString", parts |-> <<c>>] : c \in PartCoordLists \cup {<<>>}}
    \cup {[type |-> "MultiLineString", parts |-> ps] :
             ps \in UNION {[1 .. n -> PartCoordLists] : n \in 1 .. MaxParts}}

\* roads_df: one road, or a two-vertex road followed by one road.
GeomRowLists ==
    {<<g>> : g \in Geometries}
    \cup {<<[type |-> "LineString", parts |-> <<<<<<0, 0>>, <<-1, 2>>>>>>], g>> :
             g \in Geometries}

InitGeom ==
    /\ graph_rows \in GeomRowLists
    /\ graph_row = 0 /\ nodes_map = {}
    /\ node_records = [i \in {} |-> 0] /\ segments = <<>>
    /\ next_node_id = 0 /\ next_seg_id = 0
    /\ graph_out = [status |-> "none"] /\ graph_pc = "rows"
    /\ IdleBuild /\ IdleEnc /\ IdleVlv /\ IdleSzip /\ IdleOut

\* One iteration of the loop over roads_df.iterrows(), from row["geometry"].
ProcessGeomRow ==
    /\ graph_pc = "rows"
    /\ graph_row < Len(graph_rows)
    /\ LET g == ProcessCoords(iter_coords(graph_rows[graph_row + 1]),
                    [nodes_map |-> nodes_map, node_records |-> node_records,
                     segments |-> segments, next_node_id |-> next_node_id,
                     next_seg_id |-> next_seg_id, line_node_ids |-> <<>>])
       IN  /\ nodes_map' = g.nodes_map
           /\ node_records' = g.node_records
           /\ segments' = g.segments
           /\ next_node_id' = g.next_node_id
           /\ next_seg_id' = g.next_seg_id
    /\ graph_row' = graph_row + 1
    /\ UNCHANGED <<graph_rows, graph_out, graph_pc>>
    /\ UNCHANGED <<buildVars, encVars, vlvVars, szipVars, outVars>>

NextGeom == ProcessGeomRow \/ ReturnGraph

SpecGeom == InitGeom /\ [][NextGeom]_vars

\* The sum over the parts of (vertices - 1).
PartSegments(geom) ==
    SumSeq([p \in 1 .. Len(geom.parts) |-> Max(Len(geom.parts[p]) - 1, 0)])

\* The segments the step added.
AddedSegments == SubSeq(segments', Len(segments) + 1, Len(segments'))

\* Segment s joins two vertices that follow each other inside one part.
JoinsWithinOnePart(s, geom) ==
    \E p \in 1 .. Len(geom.parts) : \E i \in 1 .. Len(geom.parts[p]) - 1 :
        /\ s.from_node_id = NodesMapGet(nodes_map', geom.parts[p][i])
        /\ s.to_node_id = NodesMapGet(nodes_map', geom.parts[p][i + 1])

\* C30: the segments created for a road join vertices that are consecutive
\* within one line-string: none joins the last vertex of a part to the
\* first vertex of the next part, and their number is the sum over the
\* parts of (vertices - 1).
C30_SegmentsStayWithinParts ==
    [][graph_row' = graph_row + 1 =>
          /\ Len(AddedSegments) = PartSegments(graph_rows[graph_row + 1])
          /\ \A k \in 1 .. Len(AddedSegments) :
                JoinsWithinOnePart(AddedSegments[k],
                                   graph_rows[graph_row + 1])]_vars

\* C30 as the code has it: the parts are joined end to end, and a road of
\* two or more vertices gets (all its vertices - 1) segments.
C30_SegmentsAlongJoinedParts ==
    [][graph_row' = graph_row + 1 =>
          LET coords == iter_coords(graph_rows[graph_row + 1])
          IN  /\ Len(AddedSegments) = Max(Len(coords) - 1, 0)
              /\ \A k \in 1 .. Len(AddedSegments) :
                    /\ AddedSegments[k].from_node_id =
                          NodesMapGet(nodes_map', coords[k])
                    /\ AddedSegments[k].to_node_id =
                          NodesMapGet(nodes_map', coords[k + 1])]_vars

====
